---- MODULE Spec2Model ----
(***************************************************************************)
(* The trajectory pipeline of services/mathUtils.ts: the six path          *)
(* optimizers, calculateCenterline and the speed solve of                  *)
(* generateDetailedPath.                                                   *)
(*                                                                         *)
(* Numbers.  The program computes in IEEE doubles; here every length,      *)
(* width, velocity and acceleration is a fixed-point integer counting      *)
(* 1/Scale units, and every product or quotient is rounded to the nearest  *)
(* unit where the program rounds to the nearest double.  Properties that   *)
(* the program keeps "within floating tolerance" are stated within Tol.    *)
(*                                                                         *)
(* Objects.  THREE.Vector3 values are mutable objects: heap maps an object *)
(* identity to its fields, arrays are sequences of identities, clone()     *)
(* allocates, copy() and field assignments write through the identity.     *)
(* Source indices are 0-based; At(arr, i) reads element i of an array.     *)
(***************************************************************************)
EXTENDS Integers, Sequences, FiniteSets, TLC

VARIABLES
  heap,          \* object identity -> [x, y, z] of the Vector3 it names
  centerPoints,  \* the caller's control-point array (identities)
  initialGuess,  \* optimizeQP's optional second argument (<<>> = absent)
  hasGuess,      \* whether the caller passed initialGuess
  mode,          \* which optimizer the caller invokes
  pc,            \* position of the call
  path,          \* optimizeRRTStar's local `path` while Phase 1 runs
  k,             \* optimizeRRTStar's Phase 1 loop counter
  result,        \* the array the optimizer returned
  heap0,         \* the heap as it was when the call started (history)
  input0,        \* the values of centerPoints when the call started (history)
  cones,         \* calculateCenterline's argument: [type, x, y] records
  clPc,          \* position inside calculateCenterline
  candidates,    \* its `candidates` array
  midpoints,     \* its `midpoints` array
  sortedIdx,     \* indices into midpoints of sortedPoints, in push order
  clSteps,       \* iterations of the ordering loop run so far
  clResult,      \* the array calculateCenterline returned
  pathData,      \* generateDetailedPath's samples: dist, curvature, maxVelocity,
                 \* velocity, acceleration
  spPc,          \* position inside the flying-lap solver
  iter,          \* the solver's outer loop counter
  idx,           \* the index of the inner loop that is running
  mdPath,        \* getTrackMetadata's argument: a PathPoint sequence
  metadata,      \* the TrackMetadata it returned
  mdPc,          \* position of the getTrackMetadata call
  csv,           \* parseTrackData's argument: the text, a sequence of characters
  csvLines,      \* its `lines` array
  lineNo,        \* the index forEach has reached in `lines`
  parsed,        \* its `cones` array: [id, type, x, y] records
  psPc,          \* position inside parseTrackData
  lines0,        \* the lines the text was written from (history)
  appCones,      \* App state `cones`
  optimizerMode, \* App state `optimizerMode`
  showGhost,     \* App state `showGhost`
  raceMode,      \* App state `raceMode`
  editorState,   \* App state `editorState`
  roadPathData,  \* App state `roadPathData`
  racingPathData, \* App state `racingPathData`
  ghostPathData, \* App state `ghostPathData`
  racePaths,     \* App state `racePaths`
  trackMetadata, \* the memo `trackMetadata`
  stale,         \* whether the recompute effect is pending
  centerControlPoints \* `centerControlPoints` of the last recompute (history)

optVars == <<heap, centerPoints, initialGuess, hasGuess, mode, pc, path, k, result, heap0, input0>>

clVars == <<cones, clPc, candidates, midpoints, sortedIdx, clSteps, clResult>>

spVars == <<pathData, spPc, iter, idx>>

mdVars == <<mdPath, metadata, mdPc>>

psVars == <<csv, csvLines, lineNo, parsed, psPc, lines0>>

appVars == <<appCones, optimizerMode, showGhost, raceMode, editorState, roadPathData,
             racingPathData, ghostPathData, racePaths, trackMetadata, stale,
             centerControlPoints>>

auxVars == <<mdVars, psVars, appVars>>

----------------------------------------------------------------------------
(* Fixed-point arithmetic *)

Scale == 10 * 10
Fine == Scale * Scale
Tol == Scale \div 50

Abs(a) == IF a < 0 THEN -a ELSE a

Min(a, b) == IF a < b THEN a ELSE b

Max(a, b) == IF a > b THEN a ELSE b

\* a / b rounded to the nearest integer (b > 0)
RoundDiv(a, b) ==
  IF a >= 0 THEN (2 * a + b) \div (2 * b) ELSE -((2 * (-a) + b) \div (2 * b))

\* v * (num / den)
MulFrac(v, num, den) == RoundDiv(v * num, den)

RECURSIVE SqrtSearch(_, _, _)
SqrtSearch(n, lo, hi) ==
  IF lo >= hi THEN lo
  ELSE LET mid == (lo + hi + 1) \div 2
       IN IF mid * mid <= n THEN SqrtSearch(n, mid, hi) ELSE SqrtSearch(n, lo, mid - 1)

\* Math.sqrt of a value counted in 1/Scale^2, to the nearest 1/Scale
Sqrt(n) ==
  LET r == SqrtSearch(n, 0, Min(n, 46000))
  IN IF n - r * r > r THEN r + 1 ELSE r

----------------------------------------------------------------------------
(* Vector3 objects and arrays *)

Vec(x, y, z) == [x |-> x, y |-> y, z |-> z]

At(arr, i) == arr[i + 1]

\* Vector3.distanceToSquared: all three components
distanceToSquared(p, q) ==
  (p.x - q.x) * (p.x - q.x) + (p.y - q.y) * (p.y - q.y) + (p.z - q.z) * (p.z - q.z)

\* Vector3.lerpVectors(v1, v2, num/den): all three components
lerpVectors(v1, v2, num, den) ==
  Vec(v1.x + MulFrac(v2.x - v1.x, num, den),
      v1.y + MulFrac(v2.y - v1.y, num, den),
      v1.z + MulFrac(v2.z - v1.z, num, den))

\* arr.map(p => p.clone()) with the clones allocated at base+1 .. base+n
CloneAllAliased(h, arr, base) == [h |-> h, ids |-> arr]

CloneAll(h, arr, base) ==
  [h |-> [j \in (base + 1)..(base + Len(arr)) |-> h[arr[j - base]]] @@ h,
   ids |-> [j \in 1..Len(arr) |-> base + j]]

\* the positions an array holds
Values(h, arr) == [j \in 1..Len(arr) |-> h[arr[j]]]

getIdx(i, len) == (i + len) % len

----------------------------------------------------------------------------
(* The constraint step every optimizer repeats: project the tentative point *)
(* back onto the circle of radius frac * halfWidth around the centerline    *)
(* point (width in center.y, 3.0 when it is not positive).                   *)

WidthOfWide(center) == IF center.y > 0 THEN center.y ELSE 30 * Scale

WidthOf(center) == IF center.y > 0 THEN center.y ELSE 3 * Scale

LimitNoMargin(center, num, den) == MulFrac(WidthOf(center), 5, 10)

Limit(center, num, den) == MulFrac(MulFrac(WidthOf(center), 5, 10), num, den)

ConstrainSwapped(center, p, num, den) ==
  LET limit == Limit(center, num, den)
      dx == p.x - center.x
      dz == p.z - center.z
      distSq == dx * dx + dz * dz
  IN IF distSq > limit * limit
       THEN LET dist == Sqrt(distSq)
                ratio == RoundDiv(limit * Fine, dist)
            IN [p EXCEPT !.x = center.x + RoundDiv(dz * ratio, Fine),
                         !.z = center.z + RoundDiv(dx * ratio, Fine)]
       ELSE p

Constrain(center, p, num, den) ==
  LET limit == Limit(center, num, den)
      dx == p.x - center.x
      dz == p.z - center.z
      distSq == dx * dx + dz * dz
  IN IF distSq > limit * limit
       THEN LET dist == Sqrt(distSq)
                ratio == RoundDiv(limit * Fine, dist)
            IN [p EXCEPT !.x = center.x + RoundDiv(dx * ratio, Fine),
                         !.z = center.z + RoundDiv(dz * ratio, Fine)]
       ELSE p

\* newPos[i] is moved by (dX, dZ), then constrained against centerPoints[i];
\* every read and write goes through the heap, in the program's order
MoveAndConstrain(h, target, centerId, dX, dZ, num, den) ==
  LET h1 == [h EXCEPT ![target].x = @ + dX, ![target].z = @ + dZ]
  IN [h1 EXCEPT ![target] = Constrain(h1[centerId], h1[target], num, den)]

----------------------------------------------------------------------------
(* Garbage and identities *)

\* The two blocks of identities a loop alternates between: the array dropped
\* by `racingLine = newPos` is garbage, so its identities are allocated again.
OtherBlock(base, len, b) == IF b = base THEN base + len ELSE base

BlockOf(arr, base) == IF Len(arr) = 0 THEN base ELSE arr[1] - 1

Ids(arr) == {arr[j] : j \in 1..Len(arr)}

\* the heap without the objects nothing refers to any more
Collect(h, live) == [id \in (DOMAIN h) \cap live |-> h[id]]

----------------------------------------------------------------------------
(* Optimization 1: optimizeRacingLine (Laplacian smoother); the same loop   *)
(* body is Phase 2 of optimizeRRTStar.                                      *)

iterations == 20

RECURSIVE LaplacianPoints(_, _, _, _, _)
LaplacianPoints(h, cp, line, newPos, i) ==
  IF i >= Len(line) THEN h
  ELSE LET len == Len(line)
           prev == h[At(line, getIdx(i - 1, len))]
           curr == h[At(line, i)]
           next == h[At(line, getIdx(i + 1, len))]
           avgX == RoundDiv(prev.x + next.x, 2)
           avgZ == RoundDiv(prev.z + next.z, 2)
           h1 == MoveAndConstrain(h, At(newPos, i), At(cp, i),
                                  MulFrac(avgX - curr.x, 3, 10),
                                  MulFrac(avgZ - curr.z, 3, 10), 9, 10)
       IN LaplacianPoints(h1, cp, line, newPos, i + 1)

\* one pass of the outer loop over `line`; `fixed` tells that the pass changed
\* no position, so that every pass that remains repeats it
LaplacianPass(h, cp, line, base) ==
  LET c == CloneAll(h, line, OtherBlock(base, Len(line), BlockOf(line, base)))
      h1 == LaplacianPoints(c.h, cp, line, c.ids, 0)
  IN [h |-> h1, ids |-> c.ids,
      fixed |-> Values(h1, c.ids) = Values(h, line) /\ Values(h1, cp) = Values(h, cp)]

\* iters passes in sequence, evaluated as the first half of them followed by
\* the rest; the passes after a fixed point are not evaluated
RECURSIVE LaplacianLoop(_, _, _, _, _)
LaplacianLoop(h, cp, line, base, iters) ==
  IF iters = 0 THEN [h |-> h, ids |-> line, fixed |-> FALSE]
  ELSE IF iters = 1 THEN LaplacianPass(h, cp, line, base)
  ELSE LET first == LaplacianLoop(h, cp, line, base, iters \div 2)
       IN IF first.fixed THEN first
          ELSE LaplacianLoop(first.h, cp, first.ids, base, iters - iters \div 2)

optimizeRacingLine(h, cp, base) ==
  IF Len(cp) < 3 THEN [h |-> h, ids |-> cp]
  ELSE LET c == CloneAll(h, cp, base)
       IN LaplacianLoop(c.h, cp, c.ids, base, iterations)

----------------------------------------------------------------------------
(* Optimization 3: optimizeQP (biharmonic smoothing) *)

ITERATIONS_QP == 200

\* (-p[i-2] + 4 p[i-1] + 4 p[i+1] - p[i+2]) / 6
Biharmonic(a, b, c, d) == RoundDiv(4 * b + 4 * c - a - d, 6)

RECURSIVE QPPoints(_, _, _, _, _)
QPPoints(h, cp, line, nextPath, i) ==
  IF i >= Len(line) THEN h
  ELSE LET len == Len(line)
           im2 == h[At(line, (i - 2 + len) % len)]
           im1 == h[At(line, (i - 1 + len) % len)]
           ip1 == h[At(line, (i + 1) % len)]
           ip2 == h[At(line, (i + 2) % len)]
           cur == h[At(line, i)]
           targetX == Biharmonic(im2.x, im1.x, ip1.x, ip2.x)
           targetZ == Biharmonic(im2.z, im1.z, ip1.z, ip2.z)
           h1 == MoveAndConstrain(h, At(nextPath, i), At(cp, i),
                                  MulFrac(targetX - cur.x, 1, 10),
                                  MulFrac(targetZ - cur.z, 1, 10), 9, 10)
       IN QPPoints(h1, cp, line, nextPath, i + 1)

\* one pass of the outer loop over `line`; `fixed` tells that the pass changed
\* no position, so that every pass that remains repeats it
QPPass(h, cp, line, base) ==
  LET c == CloneAll(h, line, OtherBlock(base, Len(line), BlockOf(line, base)))
      h1 == QPPoints(c.h, cp, line, c.ids, 0)
  IN [h |-> h1, ids |-> c.ids,
      fixed |-> Values(h1, c.ids) = Values(h, line) /\ Values(h1, cp) = Values(h, cp)]

\* iters passes in sequence, evaluated as the first half of them followed by
\* the rest; the passes after a fixed point are not evaluated
RECURSIVE QPLoop(_, _, _, _, _)
QPLoop(h, cp, line, base, iters) ==
  IF iters = 0 THEN [h |-> h, ids |-> line, fixed |-> FALSE]
  ELSE IF iters = 1 THEN QPPass(h, cp, line, base)
  ELSE LET first == QPLoop(h, cp, line, base, iters \div 2)
       IN IF first.fixed THEN first
          ELSE QPLoop(first.h, cp, first.ids, base, iters - iters \div 2)

\* withGuess tells whether the optional initialGuess was passed
optimizeQP(h, cp, withGuess, guess, base) ==
  IF Len(cp) < 3 THEN [h |-> h, ids |-> cp]
  ELSE LET c0 == IF withGuess THEN CloneAll(h, guess, base) ELSE CloneAll(h, cp, base)
           c == IF Len(c0.ids) # Len(cp) THEN CloneAll(c0.h, cp, base) ELSE c0
       IN QPLoop(c.h, cp, c.ids, base, ITERATIONS_QP)

----------------------------------------------------------------------------
(* Optimization 4: optimizeHybrid (QP + Laplacian blend) *)

ITERATIONS_HYBRID == 100

RECURSIVE HybridPoints(_, _, _, _, _)
HybridPoints(h, cp, line, nextPath, i) ==
  IF i >= Len(line) THEN h
  ELSE LET len == Len(line)
           im2 == h[At(line, (i - 2 + len) % len)]
           im1 == h[At(line, (i - 1 + len) % len)]
           ip1 == h[At(line, (i + 1) % len)]
           ip2 == h[At(line, (i + 2) % len)]
           cur == h[At(line, i)]
           laplacianX == RoundDiv(im1.x + ip1.x, 2)
           laplacianZ == RoundDiv(im1.z + ip1.z, 2)
           qpX == Biharmonic(im2.x, im1.x, ip1.x, ip2.x)
           qpZ == Biharmonic(im2.z, im1.z, ip1.z, ip2.z)
           targetX == RoundDiv(4 * laplacianX + 6 * qpX, 10)
           targetZ == RoundDiv(4 * laplacianZ + 6 * qpZ, 10)
           h1 == MoveAndConstrain(h, At(nextPath, i), At(cp, i),
                                  MulFrac(targetX - cur.x, 15, 100),
                                  MulFrac(targetZ - cur.z, 15, 100), 9, 10)
       IN HybridPoints(h1, cp, line, nextPath, i + 1)

\* one pass of the outer loop over `line`; `fixed` tells that the pass changed
\* no position, so that every pass that remains repeats it
HybridPass(h, cp, line, base) ==
  LET c == CloneAll(h, line, OtherBlock(base, Len(line), BlockOf(line, base)))
      h1 == HybridPoints(c.h, cp, line, c.ids, 0)
  IN [h |-> h1, ids |-> c.ids,
      fixed |-> Values(h1, c.ids) = Values(h, line) /\ Values(h1, cp) = Values(h, cp)]

\* iters passes in sequence, evaluated as the first half of them followed by
\* the rest; the passes after a fixed point are not evaluated
RECURSIVE HybridLoop(_, _, _, _, _)
HybridLoop(h, cp, line, base, iters) ==
  IF iters = 0 THEN [h |-> h, ids |-> line, fixed |-> FALSE]
  ELSE IF iters = 1 THEN HybridPass(h, cp, line, base)
  ELSE LET first == HybridLoop(h, cp, line, base, iters \div 2)
       IN IF first.fixed THEN first
          ELSE HybridLoop(first.h, cp, first.ids, base, iters - iters \div 2)

optimizeHybrid(h, cp, base) ==
  IF Len(cp) < 3 THEN [h |-> h, ids |-> cp]
  ELSE LET c == CloneAll(h, cp, base)
       IN HybridLoop(c.h, cp, c.ids, base, ITERATIONS_HYBRID)

----------------------------------------------------------------------------
(* Optimization 2: optimizeRRTStar (stochastic shortcuts, then smoothing) *)

\* Phase 1 runs 6000 trials with jumps of 2 .. MAX_LOOKAHEAD + 1 = 51 in the
\* program; the model runs ITERATIONS_RRT trials with a shorter lookahead.
ITERATIONS_RRT == 2

MAX_LOOKAHEAD == 5

SMOOTH_ITERATIONS == 60

\* samples kk .. samples-1 of the chord pStart -> pEnd against the centerline.
\* centerT = idxStart + distIdx * (kk / samples) is the integer idxStart + kk,
\* so subT = 0 and the interpolated centre and width are those of idxLow.
RECURSIVE ShortcutSamples(_, _, _, _, _, _, _)
ShortcutSamples(h, cp, idxStart, samples, pStart, pEnd, kk) ==
  IF kk >= samples THEN TRUE
  ELSE LET len == Len(cp)
           candPos == lerpVectors(pStart, pEnd, kk, samples)
           centerT == idxStart + kk
           idxLow == centerT % len
           idxHigh == (idxLow + 1) % len
           pLow == h[At(cp, idxLow)]
           pHigh == h[At(cp, idxHigh)]
           centerPos == lerpVectors(pLow, pHigh, 0, 1)
           wLow == WidthOf(pLow)
           wHigh == WidthOf(pHigh)
           currentWidth == wLow + MulFrac(wHigh - wLow, 0, 1)
           limit == MulFrac(MulFrac(currentWidth, 5, 10), 9, 10)
       IN IF distanceToSquared(candPos, centerPos) > limit * limit
            THEN FALSE
            ELSE ShortcutSamples(h, cp, idxStart, samples, pStart, pEnd, kk + 1)

isShortcutValid(h, cp, idxStart, idxEndRaw, pStart, pEnd) ==
  LET distIdx == idxEndRaw - idxStart
  IN IF distIdx <= 1 THEN TRUE
     ELSE ShortcutSamples(h, cp, idxStart, distIdx, pStart, pEnd, 1)

\* the commit loop: pA and pB are references into path, read again at every i
RECURSIVE CommitShortcut(_, _, _, _, _, _)
CommitShortcut(h, pth, idxA, idxB, jump, i) ==
  IF i >= jump THEN h
  ELSE LET len == Len(pth)
           targetIdx == (idxA + i) % len
           newPos == lerpVectors(h[At(pth, idxA)], h[At(pth, idxB)], i, jump)
       IN CommitShortcut([h EXCEPT ![At(pth, targetIdx)] = newPos],
                         pth, idxA, idxB, jump, i + 1)

\* one Phase 1 trial with the random draws idxA and jump
RRTTrialStep(h, cp, pth, idxA, jump) ==
  LET len == Len(pth)
      idxB_Raw == idxA + jump
      idxB == idxB_Raw % len
  IN IF isShortcutValid(h, cp, idxA, idxB_Raw, h[At(pth, idxA)], h[At(pth, idxB)])
       THEN CommitShortcut(h, pth, idxA, idxB, jump, 1)
       ELSE h

----------------------------------------------------------------------------
(* Optimization 6: optimizeLocalPlanner (5-point receding horizon) *)

lookahead == 5

iterations_local == 15

RECURSIVE WindowPoints(_, _, _, _, _)
WindowPoints(h, cp, win, i, j) ==
  IF j >= Len(win) - 1 THEN h
  ELSE LET prev == h[At(win, j - 1)]
           curr == h[At(win, j)]
           next == h[At(win, j + 1)]
           tx == RoundDiv(prev.x + next.x, 2)
           tz == RoundDiv(prev.z + next.z, 2)
           originalIdx == (i + j) % Len(cp)
           h1 == MoveAndConstrain(h, At(win, j), At(cp, originalIdx),
                                  MulFrac(tx - curr.x, 5, 10),
                                  MulFrac(tz - curr.z, 5, 10), 85, 100)
       IN WindowPoints(h1, cp, win, i, j + 1)

RECURSIVE WindowLoop(_, _, _, _, _)
WindowLoop(h, cp, win, i, iters) ==
  IF iters = 0 THEN h
  ELSE LET h1 == WindowPoints(h, cp, win, i, 1)
       IN IF h1 = h THEN h ELSE WindowLoop(h1, cp, win, i, iters - 1)

WindowFromCenterline(h, cp, pth, i, wbase) ==
  CloneAll(h, [j \in 1..(lookahead + 1) |-> At(cp, (i + j - 1) % Len(cp))], wbase)

\* windowPoints of planning cycle i: a clone of path[i], then clones of the
\* next `lookahead` centerline points, allocated at wbase+1 .. wbase+6
WindowOf(h, cp, pth, i, wbase) ==
  LET src == [j \in 1..(lookahead + 1) |->
                IF j = 1 THEN At(pth, i) ELSE At(cp, (i + j - 1) % Len(cp))]
  IN CloneAll(h, src, wbase)

\* planning cycles i .. n-2; path[i+1] is allocated at base + i + 2
RECURSIVE PlanningCycles(_, _, _, _, _)
PlanningCycles(h, cp, pth, base, i) ==
  IF i >= Len(cp) - 1 THEN [h |-> h, ids |-> pth]
  ELSE LET w == WindowOf(h, cp, pth, i, base + Len(cp))
           h1 == WindowLoop(w.h, cp, w.ids, i, iterations_local)
           c == CloneAll(h1, <<At(w.ids, 1)>>, base + i + 1)
       IN PlanningCycles(c.h, cp, pth \o c.ids, base, i + 1)

\* first.distanceTo(last) < 5, compared as squares
SnapCloses(h, pth) ==
  distanceToSquared(h[At(pth, 0)], h[At(pth, Len(pth) - 1)]) < (5 * Scale) * (5 * Scale)

TooFewForWindow3(cp) == Len(cp) < 3

TooFewForWindow(cp) == Len(cp) < 6

optimizeLocalPlanner(h, cp, base) ==
  IF TooFewForWindow(cp) THEN [h |-> h, ids |-> cp]
  ELSE LET c == CloneAll(h, <<At(cp, 0)>>, base)
           r == PlanningCycles(c.h, cp, c.ids, base, 0)
           first == At(r.ids, 0)
           last == At(r.ids, Len(r.ids) - 1)
       IN IF SnapCloses(r.h, r.ids)
            THEN [h |-> [r.h EXCEPT ![last] = r.h[first]], ids |-> r.ids]
            ELSE r

----------------------------------------------------------------------------
(* calculateCenterline: pairing, overlap filtering, ordering *)

TRACK_WIDTH_LIMIT == 35

\* a spacing of 0.5
MIN_SPACING_Half == (5 * Scale) \div 10

\* MIN_SPACING = 2.5
MIN_SPACING == (25 * Scale) \div 10

Infinity == 1000 * Fine

OfType(cs, t) == SelectSeq(cs, LAMBDA c : c.type = t)

\* cones.find(c => c.type === CAR_START), or the origin
StartPos(cs) ==
  LET starts == OfType(cs, "CAR_START")
  IN IF Len(starts) > 0 THEN [x |-> starts[1].x, y |-> starts[1].y]
     ELSE [x |-> 0, y |-> 0]

Dist(ax, ay, bx, by) == Sqrt((ax - bx) * (ax - bx) + (ay - by) * (ay - by))

\* blues.forEach: the first blue at the smallest distance (0 = none yet)
RECURSIVE NearestBlue(_, _, _, _, _)
NearestBlue(yPt, blues, i, minDist, nearest) ==
  IF i > Len(blues) THEN [minDist |-> minDist, nearestBlue |-> nearest]
  ELSE LET d == Dist(yPt.x, yPt.y, blues[i].x, blues[i].y)
       IN IF d < minDist THEN NearestBlue(yPt, blues, i + 1, d, i)
          ELSE NearestBlue(yPt, blues, i + 1, minDist, nearest)

Candidate(yPt, bPt, d) ==
  [x |-> RoundDiv(yPt.x + bPt.x, 2), y |-> RoundDiv(yPt.y + bPt.y, 2),
   width |-> d, pairingDist |-> d]

\* a variant that pairs a yellow with every blue within the limit
PairWithEveryBlue(yPt, blues) ==
  LET near == SelectSeq(blues, LAMBDA b :
                Dist(yPt.x, yPt.y, b.x, b.y) < TRACK_WIDTH_LIMIT * Scale)
  IN [j \in 1..Len(near) |->
        Candidate(yPt, near[j], Dist(yPt.x, yPt.y, near[j].x, near[j].y))]

\* the candidates one yellow contributes: its nearest blue, if within the limit
PairYellow(yPt, blues) ==
  LET n == NearestBlue(yPt, blues, 1, Infinity, 0)
  IN IF n.nearestBlue # 0 /\ n.minDist < TRACK_WIDTH_LIMIT * Scale
       THEN <<Candidate(yPt, blues[n.nearestBlue], n.minDist)>>
       ELSE <<>>

RECURSIVE PairAll(_, _, _)
PairAll(yellows, blues, i) ==
  IF i > Len(yellows) THEN <<>>
  ELSE PairYellow(yellows[i], blues) \o PairAll(yellows, blues, i + 1)

\* candidates.sort((a, b) => a.pairingDist - b.pairingDist): stable
RECURSIVE InsertSorted(_, _)
InsertSorted(sorted, c) ==
  IF Len(sorted) = 0 THEN <<c>>
  ELSE IF sorted[Len(sorted)].pairingDist <= c.pairingDist THEN Append(sorted, c)
  ELSE Append(InsertSorted(SubSeq(sorted, 1, Len(sorted) - 1), c), sorted[Len(sorted)])

KeepOrder(cands, i) == SubSeq(cands, 1, i)

RECURSIVE SortByPairingDist(_, _)
SortByPairingDist(cands, i) ==
  IF i = 0 THEN <<>>
  ELSE InsertSorted(SortByPairingDist(cands, i - 1), cands[i])

NeverTooClose(mids, cand) == FALSE

isTooClose(mids, cand) ==
  \E j \in 1..Len(mids) :
    LET dx == mids[j].x - cand.x
        dy == mids[j].y - cand.y
    IN dx * dx + dy * dy < MIN_SPACING * MIN_SPACING

RECURSIVE FilterOverlaps(_, _, _)
FilterOverlaps(cands, i, mids) ==
  IF i > Len(cands) THEN mids
  ELSE FilterOverlaps(cands, i + 1,
         IF isTooClose(mids, cands[i]) THEN mids
         ELSE Append(mids, [x |-> cands[i].x, y |-> cands[i].y, width |-> cands[i].width]))

\* midpoints.forEach: the first midpoint nearest to startPos (-1 = none)
RECURSIVE StartIdx(_, _, _, _, _)
StartIdx(mids, startPos, i, minStartDist, startIdx) ==
  IF i >= Len(mids) THEN startIdx
  ELSE LET d == Dist(startPos.x, startPos.y, At(mids, i).x, At(mids, i).y)
       IN IF d < minStartDist THEN StartIdx(mids, startPos, i + 1, d, i)
          ELSE StartIdx(mids, startPos, i + 1, minStartDist, startIdx)

\* new THREE.Vector3(m.x, m.width, m.y)
Packed(m) == Vec(m.x, m.width, m.y)

SortedPoints(mids, order) == [j \in 1..Len(order) |-> Packed(At(mids, order[j]))]

\* Vector3.normalize of (dx, 0, dz), components counted in 1/Fine
Normalize(dx, dz) ==
  LET len == Sqrt(dx * dx + dz * dz)
  IN IF len = 0 THEN [x |-> 0, z |-> 0]
     ELSE [x |-> RoundDiv(dx * Fine, len), z |-> RoundDiv(dz * Fine, len)]

NeverHeading(order) == FALSE

\* the heading of the ordering walk: none until two points are pushed
HasHeading(order) == Len(order) > 1

Heading(mids, order) ==
  LET p1 == At(mids, order[Len(order) - 1])
      p2 == At(mids, order[Len(order)])
  IN Normalize(p2.x - p1.x, p2.y - p1.y)

\* d * penalty for candidate i, counted in 1/(Scale * Fine)
Score(mids, order, i) ==
  LET currentPos == At(mids, order[Len(order)])
      dx == At(mids, i).x - currentPos.x
      dy == At(mids, i).y - currentPos.y
      d == Sqrt(dx * dx + dy * dy)
      penalty ==
        IF HasHeading(order)
          THEN LET heading == Heading(mids, order)
                   toCandidate == Normalize(dx, dy)
                   alignment == RoundDiv(heading.x * toCandidate.x
                                         + heading.z * toCandidate.z, Fine)
               IN 3 * Fine - 2 * alignment
          ELSE Fine
  IN d * penalty

RECURSIVE NearestIdxRevisiting(_, _, _, _, _)
NearestIdxRevisiting(mids, order, i, minScore, nearestIdx) ==
  IF i >= Len(mids) THEN nearestIdx
  ELSE LET score == Score(mids, order, i)
       IN IF score < minScore
            THEN NearestIdxRevisiting(mids, order, i + 1, score, i)
            ELSE NearestIdxRevisiting(mids, order, i + 1, minScore, nearestIdx)

\* the inner for loop: the first unvisited index of least score (-1 = none)
RECURSIVE NearestIdx(_, _, _, _, _)
NearestIdx(mids, order, i, minScore, nearestIdx) ==
  IF i >= Len(mids) THEN nearestIdx
  ELSE IF i \in Ids(order) THEN NearestIdx(mids, order, i + 1, minScore, nearestIdx)
  ELSE LET score == Score(mids, order, i)
       IN IF score < minScore
            THEN NearestIdx(mids, order, i + 1, score, i)
            ELSE NearestIdx(mids, order, i + 1, minScore, nearestIdx)

RawDist(mids, order, nearestIdx) ==
  IF nearestIdx # -1
    THEN LET currentPos == At(mids, order[Len(order)])
         IN Dist(At(mids, nearestIdx).x, At(mids, nearestIdx).y, currentPos.x, currentPos.y)
    ELSE Infinity

\* the early returns on an empty array
NoneOrTooFew(arr) == Len(arr) < 3

NoneLeft(arr) == Len(arr) = 0

ReturnCenterline(r) ==
  /\ clResult' = r
  /\ clPc' = "done"
  /\ UNCHANGED <<optVars, spVars, auxVars>>

\* lines 428-465: split by colour, pair every yellow with its nearest blue
Pairing ==
  /\ clPc = "ready"
  /\ LET blues == OfType(cones, "BLUE")
         yellows == OfType(cones, "YELLOW")
     IN IF Len(yellows) = 0 \/ Len(blues) = 0
          THEN /\ ReturnCenterline(<<>>)
               /\ UNCHANGED <<cones, candidates, midpoints, sortedIdx, clSteps>>
          ELSE LET cands == PairAll(yellows, blues, 1)
               IN IF NoneLeft(cands)
                    THEN /\ ReturnCenterline(<<>>)
                         /\ candidates' = cands
                         /\ UNCHANGED <<cones, midpoints, sortedIdx, clSteps>>
                    ELSE /\ candidates' = cands
                         /\ clPc' = "paired"
                         /\ UNCHANGED <<cones, midpoints, sortedIdx, clSteps, clResult>>
                         /\ UNCHANGED <<optVars, spVars, auxVars>>

\* lines 467-485: sort by pairing distance, drop overlapping midpoints
Filtering ==
  /\ clPc = "paired"
  /\ LET sorted == SortByPairingDist(candidates, Len(candidates))
         mids == FilterOverlaps(sorted, 1, <<>>)
     IN /\ candidates' = sorted
        /\ midpoints' = mids
        /\ IF NoneLeft(mids)
             THEN ReturnCenterline(<<>>)
             ELSE clPc' = "filtered" /\ UNCHANGED clResult /\ UNCHANGED <<optVars, spVars, auxVars>>
        /\ UNCHANGED <<cones, sortedIdx, clSteps>>

\* lines 487-511: the walk starts at the midpoint nearest to the start position
StartWalk ==
  /\ clPc = "filtered"
  /\ LET startIdx == StartIdx(midpoints, StartPos(cones), 0, Infinity, -1)
     IN IF startIdx = -1
          THEN /\ ReturnCenterline(<<>>)
               /\ UNCHANGED <<cones, candidates, midpoints, sortedIdx, clSteps>>
          ELSE /\ sortedIdx' = <<startIdx>>
               /\ clPc' = "walking"
               /\ UNCHANGED <<cones, candidates, midpoints, clSteps, clResult>>
               /\ UNCHANGED <<optVars, spVars, auxVars>>

\* lines 513-559: one iteration of the ordering loop
WalkStep ==
  /\ clPc = "walking"
  /\ Len(sortedIdx) < Len(midpoints)
  /\ LET nearestIdx == NearestIdx(midpoints, sortedIdx, 0, 2 * Infinity * Scale, -1)
         rawDist == RawDist(midpoints, sortedIdx, nearestIdx)
     IN IF nearestIdx = -1 \/ rawDist > TRACK_WIDTH_LIMIT * Scale
          THEN /\ ReturnCenterline(SortedPoints(midpoints, sortedIdx))
               /\ UNCHANGED sortedIdx
          ELSE /\ sortedIdx' = Append(sortedIdx, nearestIdx)
               /\ UNCHANGED <<clPc, clResult>>
               /\ UNCHANGED <<optVars, spVars, auxVars>>
  /\ clSteps' = clSteps + 1
  /\ UNCHANGED <<cones, candidates, midpoints>>

\* line 561: the loop condition failed
WalkEnd ==
  /\ clPc = "walking"
  /\ Len(sortedIdx) >= Len(midpoints)
  /\ ReturnCenterline(SortedPoints(midpoints, sortedIdx))
  /\ UNCHANGED <<cones, candidates, midpoints, sortedIdx, clSteps>>

----------------------------------------------------------------------------
(* The caller: one optimizer call on one control-point array *)

MaxLen == 7

Modes == {"LAPLACIAN", "RRT", "QP", "HYBRID", "RRT_QP", "LOCAL"}

\* control point i of a track: on the perimeter of a square ("ring") or on a
\* straight line, `spacing` apart
Perimeter == <<<<0, 0>>, <<1, 0>>, <<2, 0>>, <<2, 1>>, <<2, 2>>, <<1, 2>>, <<0, 2>>, <<0, 1>>>>

\* a row with gaps of different lengths on both sides of its first two
\* points ("fork")
Fork == <<<<0, 0>>, <<1, 0>>, <<-1, 0>>, <<4, 0>>, <<16, 0>>, <<7, 0>>>>

TrackXZ(shape, i) ==
  IF shape = "ring" THEN Perimeter[(i % 8) + 1]
  ELSE IF shape = "fork" THEN Fork[(i % 6) + 1]
  ELSE <<i, 0>>

\* the width stored in y: narrow, medium, alternating narrow/wide, one
\* point without a width (0), alternating 2.0/2.4, or wide
TrackWidth(pattern, i) ==
  CASE pattern = 0 -> (12 * Scale) \div 10
    [] pattern = 1 -> 2 * Scale
    [] pattern = 2 -> IF i % 2 = 0 THEN (12 * Scale) \div 10 ELSE 4 * Scale
    [] pattern = 3 -> IF i = 1 THEN 0 ELSE 2 * Scale
    [] pattern = 4 -> IF i % 2 = 0 THEN 2 * Scale ELSE (24 * Scale) \div 10
    [] OTHER -> 4 * Scale

Spacings == {1, 3}

TrackHeap(n, shape, spacing, pattern) ==
  [id \in 1..n |->
     Vec(TrackXZ(shape, id - 1)[1] * spacing * Scale,
         TrackWidth(pattern, id - 1),
         TrackXZ(shape, id - 1)[2] * spacing * Scale)]

\* an initial guess for optimizeQP: the centerline displaced by (2, -1), of
\* the same length or one point short
GuessHeap(h, n, m) ==
  [id \in (n + 1)..(n + m) |->
     Vec(h[id - n].x + 2 * Scale, h[id - n].y, h[id - n].z - Scale)]

----------------------------------------------------------------------------
(* generateDetailedPath: speed ceilings (Pass 0), the flying-lap solver and  *)
(* Pass 3.  The sampled curve comes from THREE.CatmullRomCurve3; the model   *)
(* takes the chord lengths and the turn angles of the samples as the input.  *)

GRAVITY == (981 * Scale) \div 100

FRICTION_COEFF == (15 * Scale) \div 10

MAX_VELOCITY == 35 * Scale

MAX_ACCEL == 10 * Scale

MAX_BRAKING == 15 * Scale

ITERATIONS == 4

\* Math.PI / 2, the angle Vector3.angleTo gives for a zero-length tangent
HalfPi == (15708 * Scale) \div 10000

maxGripAcc == RoundDiv(FRICTION_COEFF * GRAVITY, Scale)

\* k = angle / (segLen * 0.5 + 0.001)
Curvature(angle, segLen) == RoundDiv(1000 * angle * Scale, 500 * segLen + Scale)

\* radius = k > 0.001 ? 1 / k : 10000
Radius(kappa) == IF kappa > 0 THEN RoundDiv(Scale * Scale, kappa) ELSE 10000 * Scale

LimitVelUncapped(maxLatVel) == maxLatVel

\* limitVel = Math.min(maxLatVel, PHYSICS.MAX_VELOCITY)
LimitVel(maxLatVel) == Min(maxLatVel, MAX_VELOCITY)

\* Pass 0 for sample i of n, from the chord lengths seg[1..n-1] (seg[j] joins
\* samples j-1 and j) and the turn angles; the closed curve's last sample is
\* its first, so the chord across the seam has length 0
ChordBefore(seg, n, i) == IF i = 0 THEN 0 ELSE seg[i]

ChordAfter(seg, n, i) == IF i = n - 1 THEN 0 ELSE seg[i + 1]

RECURSIVE CumulativeDist(_, _)
CumulativeDist(seg, i) == IF i = 0 THEN 0 ELSE CumulativeDist(seg, i - 1) + seg[i]

PathPoint(seg, angle, n, i) ==
  LET segLen == ChordBefore(seg, n, i) + ChordAfter(seg, n, i)
      kappa == Curvature(angle[i + 1], segLen)
      maxLatVel == Sqrt(maxGripAcc * Radius(kappa))
      limitVel == LimitVel(maxLatVel)
  IN [dist |-> CumulativeDist(seg, i), curvature |-> kappa,
      maxVelocity |-> limitVel, velocity |-> limitVel, acceleration |-> 0]

\* Math.sqrt(Math.max(0, gripSq - latSq)) for latAccel = v * v * k >= 0
Available(v, kappa) ==
  LET latAccel == RoundDiv(RoundDiv(v * v, Scale) * kappa, Scale)
  IN IF latAccel >= maxGripAcc THEN 0
     ELSE Sqrt(maxGripAcc * maxGripAcc - latAccel * latAccel)

\* Math.sqrt(v * v + 2 * limit * dist)
Reachable(v, limit, dist) == Sqrt(v * v + 2 * limit * dist)

Vel(pd, i) == At(pd, i).velocity

SetVel(pd, i, v) == [pd EXCEPT ![i + 1].velocity = v]

BackwardSkipped(pd, i) == pd

\* the body of the backward loop at index i
BackwardAt(pd, i) ==
  LET dist == At(pd, i + 1).dist - At(pd, i).dist
      vNext == Vel(pd, i + 1)
      brakingLimit == Min(Available(vNext, At(pd, i).curvature), MAX_BRAKING)
      vLimit == Reachable(vNext, brakingLimit, dist)
  IN SetVel(pd, i, Min(Vel(pd, i), vLimit))

\* the body of the forward loop at index i
ForwardAt(pd, i) ==
  LET dist == At(pd, i).dist - At(pd, i - 1).dist
      vPrev == Vel(pd, i - 1)
      engineLimit == Min(Available(vPrev, At(pd, i).curvature), MAX_ACCEL)
      vLimit == Reachable(vPrev, engineLimit, dist)
  IN SetVel(pd, i, Min(Vel(pd, i), vLimit))

\* Pass 3 for sample i < n - 1: the acceleration towards the next sample
AccelAt(pd, i) ==
  LET dist == At(pd, i + 1).dist - At(pd, i).dist
      accel == RoundDiv(Vel(pd, i + 1) * Vel(pd, i + 1) - Vel(pd, i) * Vel(pd, i),
                        2 * dist)
  IN IF Abs(accel) < Scale \div 10 THEN 0 ELSE accel

Pass3(pd) ==
  LET n == Len(pd)
      a == [j \in 1..n |-> IF j < n THEN AccelAt(pd, j - 1) ELSE 0]
  IN [j \in 1..n |->
        [pd[j] EXCEPT !.acceleration = IF j < n THEN a[j] ELSE a[1]]]

SeedAlways(it) == TRUE

\* if (iter > 0)
SeedApplies(it) == it > 0

\* lines 639-643: from the second iteration on, the last sample is seeded
Seed ==
  /\ spPc = "seed"
  /\ LET n == Len(pathData)
         startVel == Vel(pathData, 0)
         endVel == Vel(pathData, n - 1)
     IN /\ pathData' = IF SeedApplies(iter) THEN SetVel(pathData, n - 1, Min(endVel, startVel))
                       ELSE pathData
        /\ idx' = n - 2
  /\ spPc' = "backward"
  /\ UNCHANGED iter
  /\ UNCHANGED <<optVars, clVars, auxVars>>

\* lines 645-656: one step of the backward (braking) pass
Backward ==
  /\ spPc = "backward"
  /\ idx >= 0
  /\ pathData' = BackwardAt(pathData, idx)
  /\ idx' = idx - 1
  /\ UNCHANGED <<spPc, iter>>
  /\ UNCHANGED <<optVars, clVars, auxVars>>

PropagateMin ==
  /\ spPc = "backward"
  /\ idx < 0
  /\ pathData' = SetVel(pathData, 0, Min(Vel(pathData, 0), Vel(pathData, Len(pathData) - 1)))
  /\ idx' = 1
  /\ spPc' = "forward"
  /\ UNCHANGED iter
  /\ UNCHANGED <<optVars, clVars, auxVars>>

\* lines 658-659: pathData[0].velocity = endVel
Propagate ==
  /\ spPc = "backward"
  /\ idx < 0
  /\ pathData' = SetVel(pathData, 0, Vel(pathData, Len(pathData) - 1))
  /\ idx' = 1
  /\ spPc' = "forward"
  /\ UNCHANGED iter
  /\ UNCHANGED <<optVars, clVars, auxVars>>

\* lines 661-672: one step of the forward (acceleration) pass
Forward ==
  /\ spPc = "forward"
  /\ idx < Len(pathData)
  /\ pathData' = ForwardAt(pathData, idx)
  /\ idx' = idx + 1
  /\ UNCHANGED <<spPc, iter>>
  /\ UNCHANGED <<optVars, clVars, auxVars>>

ResyncFromSecond ==
  /\ spPc = "forward"
  /\ idx >= Len(pathData)
  /\ pathData' = SetVel(pathData, Len(pathData) - 1, Vel(pathData, 1))
  /\ iter' = iter + 1
  /\ spPc' = IF iter + 1 < ITERATIONS THEN "seed" ELSE "pass3"
  /\ UNCHANGED idx
  /\ UNCHANGED <<optVars, clVars, auxVars>>

\* line 673, then the next iteration or Pass 3
Resync ==
  /\ spPc = "forward"
  /\ idx >= Len(pathData)
  /\ pathData' = SetVel(pathData, Len(pathData) - 1, Vel(pathData, 0))
  /\ iter' = iter + 1
  /\ spPc' = IF iter + 1 < ITERATIONS THEN "seed" ELSE "pass3"
  /\ UNCHANGED idx
  /\ UNCHANGED <<optVars, clVars, auxVars>>

\* lines 676-703: accelerations, then the return
Accelerations ==
  /\ spPc = "pass3"
  /\ pathData' = Pass3(pathData)
  /\ spPc' = "done"
  /\ UNCHANGED <<iter, idx>>
  /\ UNCHANGED <<optVars, clVars, auxVars>>

IdleSpeed ==
  /\ pathData = <<>>
  /\ spPc = "idle"
  /\ iter = 0
  /\ idx = 0

IdleMD ==
  /\ mdPath = <<>>
  /\ metadata = <<>>
  /\ mdPc = "idle"

IdlePS ==
  /\ csv = <<>>
  /\ csvLines = <<>>
  /\ lineNo = 0
  /\ parsed = <<>>
  /\ psPc = "idle"
  /\ lines0 = <<>>

IdleApp ==
  /\ appCones = <<>>
  /\ optimizerMode = "NONE"
  /\ showGhost = FALSE
  /\ raceMode = FALSE
  /\ editorState = <<>>
  /\ roadPathData = <<>>
  /\ racingPathData = <<>>
  /\ ghostPathData = <<>>
  /\ racePaths = <<>>
  /\ trackMetadata = <<>>
  /\ stale = FALSE
  /\ centerControlPoints = <<>>

IdleAux == IdleMD /\ IdlePS /\ IdleApp

----------------------------------------------------------------------------
(* getTrackMetadata: the reduction of a PathPoint sequence to its summary *)

\* (p.velocity * p.velocity * p.curvature) / PHYSICS.GRAVITY
LatG(p) == RoundDiv(RoundDiv(p.velocity * p.velocity, Scale) * p.curvature, GRAVITY)

\* p.acceleration / PHYSICS.GRAVITY
LongG(p) == RoundDiv(p.acceleration * Scale, GRAVITY)

\* path.reduce((acc, p) => acc + p.velocity, 0) over path[0 .. i-1]
RECURSIVE SumVelocity(_, _)
SumVelocity(pth, i) ==
  IF i = 0 THEN 0 ELSE SumVelocity(pth, i - 1) + At(pth, i - 1).velocity

InitialExtremumFirst(pth) ==
  [maxLatG |-> LatG(At(pth, 0)), maxLongG |-> LongG(At(pth, 0)),
   minLongG |-> LongG(At(pth, 0))]

\* let maxLatG = 0; let maxLongG = 0; let minLongG = 0
InitialExtremum(pth) == [maxLatG |-> 0, maxLongG |-> 0, minLongG |-> 0]

\* the forEach callback at sample i, then the samples after it
RECURSIVE Extrema(_, _, _)
Extrema(pth, i, e) ==
  IF i >= Len(pth) THEN e
  ELSE LET p == At(pth, i)
           latG == LatG(p)
           longG == LongG(p)
           e1 == IF latG > e.maxLatG THEN [e EXCEPT !.maxLatG = latG] ELSE e
           e2 == IF longG > e1.maxLongG THEN [e1 EXCEPT !.maxLongG = longG] ELSE e1
           e3 == IF longG < e2.minLongG THEN [e2 EXCEPT !.minLongG = longG] ELSE e2
       IN Extrema(pth, i + 1, e3)

getTrackMetadata(pth) ==
  IF Len(pth) = 0
    THEN [name |-> "Empty", totalLength |-> 0, avgSpeed |-> 0, estLapTime |-> 0,
          maxLatG |-> 0, maxLongG |-> 0, minLongG |-> 0]
    ELSE LET totalLength == At(pth, Len(pth) - 1).dist
             avgSpeed == RoundDiv(SumVelocity(pth, Len(pth)), Len(pth))
             estLapTime == RoundDiv(totalLength * Scale, avgSpeed + Scale \div 100)
             e == Extrema(pth, 0, InitialExtremum(pth))
         IN [name |-> "Custom Circuit", totalLength |-> totalLength,
             avgSpeed |-> avgSpeed, estLapTime |-> estLapTime,
             maxLatG |-> e.maxLatG, maxLongG |-> e.maxLongG, minLongG |-> e.minLongG]

\* one call of getTrackMetadata
CallGetTrackMetadata ==
  /\ mdPc = "ready"
  /\ metadata' = getTrackMetadata(mdPath)
  /\ mdPc' = "done"
  /\ UNCHANGED mdPath
  /\ UNCHANGED <<optVars, clVars, spVars, psVars, appVars>>

\* Marker sets: a row (or ring) of nB blue cones and one of nY yellow cones,
\* `spacing` apart along the track, the yellow row displaced by `lateral`;
\* then a CAR_START near the first or the last pair, an ORANGE cone, or none.
MaxCones == 5

ConeSpacings == {1, 3, 36}

Laterals == {3, 36}

ConeAt(t, shape, i, spacing, lateral) ==
  [type |-> t,
   x |-> TrackXZ(shape, i)[1] * spacing * Scale,
   y |-> TrackXZ(shape, i)[2] * spacing * Scale + lateral * Scale]

Extra(kind, shape, n, spacing) ==
  CASE kind = "first" -> <<ConeAt("CAR_START", shape, 0, spacing, 1)>>
    [] kind = "last" -> <<ConeAt("CAR_START", shape, Max(n, 1) - 1, spacing, 1)>>
    [] kind = "orange" -> <<ConeAt("ORANGE", shape, 0, spacing, 1)>>
    [] OTHER -> <<>>

Markers(nB, nY, shape, spacing, lateral, kind) ==
  [i \in 1..nB |-> ConeAt("BLUE", shape, i - 1, spacing, 0)]
  \o [i \in 1..nY |-> ConeAt("YELLOW", shape, i - 1, spacing, lateral)]
  \o Extra(kind, shape, nY, spacing)

IdleCL ==
  /\ cones = <<>>
  /\ clPc = "idle"
  /\ candidates = <<>>
  /\ midpoints = <<>>
  /\ sortedIdx = <<>>
  /\ clSteps = 0
  /\ clResult = <<>>

IdleOpt ==
  /\ heap = <<>>
  /\ centerPoints = <<>>
  /\ initialGuess = <<>>
  /\ hasGuess = FALSE
  /\ mode = "NONE"
  /\ pc = "idle"
  /\ path = <<>>
  /\ k = 0
  /\ result = <<>>
  /\ heap0 = <<>>
  /\ input0 = <<>>

InitCL ==
  /\ IdleOpt
  /\ IdleSpeed
  /\ IdleAux
  /\ \E nB \in 0..MaxCones, nY \in 0..MaxCones, shape \in {"ring", "line", "fork"},
        spacing \in ConeSpacings, lateral \in Laterals,
        kind \in {"none", "first", "last", "orange"} :
       /\ shape = "fork" => spacing < 36
       /\ cones = Markers(nB, nY, shape, spacing, lateral, kind)
  /\ clPc = "ready"
  /\ candidates = <<>>
  /\ midpoints = <<>>
  /\ sortedIdx = <<>>
  /\ clSteps = 0
  /\ clResult = <<>>

NextCL ==
  \/ Pairing
  \/ Filtering
  \/ StartWalk
  \/ WalkStep
  \/ WalkEnd

InitOpt ==
  /\ IdleCL
  /\ IdleSpeed
  /\ IdleAux
  /\ \E n \in 0..MaxLen, shape \in {"ring", "line"}, spacing \in Spacings,
     pattern \in 0..5, md \in Modes, g \in 0..2 :
       LET h == TrackHeap(n, shape, spacing, pattern)
           m == IF g = 2 /\ n > 0 THEN n - 1 ELSE n
       IN /\ (g > 0) => md = "QP"
          /\ mode = md
          /\ hasGuess = (g > 0)
          /\ centerPoints = [j \in 1..n |-> j]
          /\ initialGuess = IF g > 0 THEN [j \in 1..m |-> n + j] ELSE <<>>
          /\ heap = IF g > 0 THEN GuessHeap(h, n, m) @@ h ELSE h
          /\ heap0 = heap
          /\ input0 = Values(heap, centerPoints)
          /\ pc = "ready"
          /\ path = <<>>
          /\ k = 0
          /\ result = <<>>

\* identities below Base belong to the caller
Base == Len(centerPoints) + Len(initialGuess)

Live(ids) == Ids(centerPoints) \cup Ids(initialGuess) \cup Ids(ids)

Return(r) ==
  /\ heap' = Collect(r.h, Live(r.ids))
  /\ result' = r.ids
  /\ path' = <<>>
  /\ pc' = "done"
  /\ UNCHANGED <<centerPoints, initialGuess, hasGuess, mode, k, heap0, input0>>
  /\ UNCHANGED <<clVars, spVars, auxVars>>

CallRacingLine ==
  /\ pc = "ready" /\ mode = "LAPLACIAN"
  /\ Return(optimizeRacingLine(heap, centerPoints, Base))

CallQP ==
  /\ pc = "ready" /\ mode = "QP"
  /\ Return(optimizeQP(heap, centerPoints, hasGuess, initialGuess, Base))

CallHybrid ==
  /\ pc = "ready" /\ mode = "HYBRID"
  /\ Return(optimizeHybrid(heap, centerPoints, Base))

CallLocalPlanner ==
  /\ pc = "ready" /\ mode = "LOCAL"
  /\ Return(optimizeLocalPlanner(heap, centerPoints, Base))

\* optimizeRRTStar up to Phase 1 (also as the first stage of optimizeRRTQP);
\* with fewer than 3 points both return centerPoints at once
RRTStart ==
  /\ pc = "ready" /\ mode \in {"RRT", "RRT_QP"}
  /\ IF Len(centerPoints) < 3
       THEN Return(IF mode = "RRT" THEN [h |-> heap, ids |-> centerPoints]
                   ELSE optimizeQP(heap, centerPoints, TRUE, centerPoints, Base))
       ELSE LET c == CloneAll(heap, centerPoints, Base)
            IN /\ heap' = c.h
               /\ path' = c.ids
               /\ k' = 0
               /\ pc' = "phase1"
               /\ UNCHANGED <<centerPoints, initialGuess, hasGuess, mode, result, heap0, input0>>
               /\ UNCHANGED <<clVars, spVars, auxVars>>

RRTTrial ==
  /\ pc = "phase1" /\ k < ITERATIONS_RRT
  /\ \E idxA \in 0..(Len(path) - 1), jump \in 2..(MAX_LOOKAHEAD + 1) :
       heap' = RRTTrialStep(heap, centerPoints, path, idxA, jump)
  /\ k' = k + 1
  /\ UNCHANGED <<centerPoints, initialGuess, hasGuess, mode, pc, path, result, heap0, input0>>
  /\ UNCHANGED <<clVars, spVars, auxVars>>

\* Phase 2 and the return; optimizeRRTQP then polishes the result with optimizeQP
RRTFinish ==
  /\ pc = "phase1" /\ k >= ITERATIONS_RRT
  /\ LET len == Len(centerPoints)
         rrt == LaplacianLoop(heap, centerPoints, path, Base, SMOOTH_ITERATIONS)
     IN IF mode = "RRT" THEN Return(rrt)
        ELSE Return(optimizeQP(rrt.h, centerPoints, TRUE, rrt.ids, Base + 2 * len))

vars == <<optVars, clVars, spVars, auxVars>>

\* Sampled curves: n samples, chords of 1 or 30, interior turn angles of 0,
\* 0.05 or 0.5 rad; the two samples at the seam turn by HalfPi.
MaxSamples == 5

SegLens == {Scale, 30 * Scale}

Angles == {0, (5 * Scale) \div 100, (5 * Scale) \div 10}

InitSpeed ==
  /\ IdleOpt
  /\ IdleCL
  /\ IdleAux
  /\ \E n \in 3..MaxSamples :
       \E seg \in [1..(n - 1) -> SegLens], inner \in [2..(n - 1) -> Angles] :
         LET angle == [j \in 1..n |-> IF j = 1 \/ j = n THEN HalfPi ELSE inner[j]]
         IN pathData = [j \in 1..n |-> PathPoint(seg, angle, n, j - 1)]
  /\ spPc = "seed"
  /\ iter = 0
  /\ idx = 0

NextSpeed ==
  \/ Seed
  \/ Backward
  \/ Propagate
  \/ Forward
  \/ Resync
  \/ Accelerations

----------------------------------------------------------------------------
(* parseTrackData: text to markers.  A string is a sequence of characters.  *)

Whitespace == {" ", "\t", "\r"}

DigitChars == <<"0", "1", "2", "3", "4", "5", "6", "7", "8", "9">>

IsDigit(c) == \E d \in 1..10 : DigitChars[d] = c

DigitVal(c) == (CHOOSE d \in 1..10 : DigitChars[d] = c) - 1

\* the value Number.isNaN recognises
NaN == 0 - 1000000 * Scale

\* str.split(sep) for a one-character separator: the pieces of str[i ..]
RECURSIVE SplitFrom(_, _, _)
SplitFrom(str, sep, i) ==
  LET seps == {j \in i..Len(str) : str[j] = sep}
  IN IF seps = {} THEN <<SubSeq(str, i, Len(str))>>
     ELSE LET j == CHOOSE a \in seps : \A b \in seps : a <= b
          IN <<SubSeq(str, i, j - 1)>> \o SplitFrom(str, sep, j + 1)

split(str, sep) == SplitFrom(str, sep, 1)

RECURSIVE trimStart(_)
trimStart(str) ==
  IF Len(str) > 0 /\ Head(str) \in Whitespace THEN trimStart(Tail(str)) ELSE str

RECURSIVE trimEnd(_)
trimEnd(str) ==
  IF Len(str) > 0 /\ str[Len(str)] \in Whitespace
    THEN trimEnd(SubSeq(str, 1, Len(str) - 1)) ELSE str

trim(str) == trimEnd(trimStart(str))

includes(str, sub) ==
  \E i \in 1..(Len(str) - Len(sub) + 1) : SubSeq(str, i, i + Len(sub) - 1) = sub

\* the digits str[i ..] starts with: how many there are and their value
RECURSIVE DigitRun(_, _, _, _)
DigitRun(str, i, count, value) ==
  IF i <= Len(str) /\ IsDigit(str[i])
    THEN DigitRun(str, i + 1, count + 1, 10 * value + DigitVal(str[i]))
    ELSE [count |-> count, value |-> value]

\* parseFloat: leading whitespace is skipped, then the longest prefix of the
\* form [+-] digits [. digits] is read and the rest ignored; NaN when that
\* prefix holds no digit.  The value is kept to 1 / Scale.
parseFloat(str) ==
  LET t == trimStart(str)
      signed == Len(t) > 0 /\ Head(t) \in {"+", "-"}
      sign == IF signed /\ Head(t) = "-" THEN -1 ELSE 1
      u == IF signed THEN Tail(t) ELSE t
      int == DigitRun(u, 1, 0, 0)
      dotted == Len(u) > int.count /\ u[int.count + 1] = "."
      frac == IF dotted THEN DigitRun(u, int.count + 2, 0, 0)
              ELSE [count |-> 0, value |-> 0]
      hundredths == CASE frac.count = 0 -> 0
                      [] frac.count = 1 -> 10 * frac.value
                      [] frac.count = 2 -> frac.value
                      [] OTHER -> 0
  IN IF int.count + frac.count = 0 THEN NaN
     ELSE sign * (int.value * Scale + (hundredths * Scale) \div 100)

isNaN(v) == v = NaN

BadNumbersXOnly(x, y) == isNaN(x)

\* isNaN(x) || isNaN(y)
BadNumbers(x, y) == isNaN(x) \/ isNaN(y)

blue == <<"b", "l", "u", "e">>

yellow == <<"y", "e", "l", "l", "o", "w">>

car_start == <<"c", "a", "r", "_", "s", "t", "a", "r", "t">>

orange == <<"o", "r", "a", "n", "g", "e">>

\* the forEach callback for one line: the markers it pushes, with the
\* identifier generateId() returned
ParseLineOf(line, id) ==
  LET parts == split(line, ",")
  IN IF Len(parts) < 3 THEN <<>>
     ELSE LET tag == trim(parts[1])
              x == parseFloat(parts[2])
              y == parseFloat(parts[3])
              cone(t) == <<[id |-> id, x |-> x, y |-> y, z |-> 0, type |-> t]>>
          IN IF BadNumbers(x, y) THEN <<>>
             ELSE IF includes(tag, blue) THEN cone("BLUE")
             ELSE IF includes(tag, yellow) THEN cone("YELLOW")
             ELSE IF includes(tag, car_start) THEN cone("CAR_START")
             ELSE IF includes(tag, orange) THEN cone("ORANGE")
             ELSE <<>>

\* the identifiers Math.random().toString(36).substring(2, 9) can return
IdPool == {"k3j9x2a", "q0z81mf"}

\* const lines = csv.split('\n')
SplitLines ==
  /\ psPc = "ready"
  /\ csvLines' = split(csv, "\n")
  /\ lineNo' = 0
  /\ psPc' = "lines"
  /\ UNCHANGED <<csv, parsed, lines0>>
  /\ UNCHANGED <<optVars, clVars, spVars, mdVars, appVars>>

\* lines 50-69: the callback on the next line
ParseLine ==
  /\ psPc = "lines"
  /\ lineNo < Len(csvLines)
  /\ \E id \in IdPool : parsed' = parsed \o ParseLineOf(At(csvLines, lineNo), id)
  /\ lineNo' = lineNo + 1
  /\ UNCHANGED <<csv, csvLines, psPc, lines0>>
  /\ UNCHANGED <<optVars, clVars, spVars, mdVars, appVars>>

\* line 71: return cones
ReturnCones ==
  /\ psPc = "lines"
  /\ lineNo >= Len(csvLines)
  /\ psPc' = "done"
  /\ UNCHANGED <<csv, csvLines, lineNo, parsed, lines0>>
  /\ UNCHANGED <<optVars, clVars, spVars, mdVars, appVars>>

\* The lines texts are written from, each with the marker it stands for (no
\* marker: <<>>):
\*   blue,1,2            yellow,3,-4.5      (space)car_start, 0 ,0,7
\*   big_orange,1x,2     blue,1             (empty)
\*   blue,x,2            blue,1,            Blue,1,2            red,1,2
LineFamily ==
  << [text |-> blue \o <<",", "1", ",", "2">>,
      marker |-> <<[type |-> "BLUE", x |-> Scale, y |-> 2 * Scale]>>],
     [text |-> yellow \o <<",", "3", ",", "-", "4", ".", "5">>,
      marker |-> <<[type |-> "YELLOW", x |-> 3 * Scale, y |-> 0 - (9 * Scale) \div 2]>>],
     [text |-> <<" ">> \o car_start \o <<",", " ", "0", " ", ",", "0", ",", "7">>,
      marker |-> <<[type |-> "CAR_START", x |-> 0, y |-> 0]>>],
     [text |-> <<"b", "i", "g", "_">> \o orange \o <<",", "1", "x", ",", "2">>,
      marker |-> <<[type |-> "ORANGE", x |-> Scale, y |-> 2 * Scale]>>],
     [text |-> blue \o <<",", "1">>, marker |-> <<>>],
     [text |-> <<>>, marker |-> <<>>],
     [text |-> blue \o <<",", "x", ",", "2">>, marker |-> <<>>],
     [text |-> blue \o <<",", "1", ",">>, marker |-> <<>>],
     [text |-> <<"B", "l", "u", "e", ",", "1", ",", "2">>, marker |-> <<>>],
     [text |-> <<"r", "e", "d", ",", "1", ",", "2">>, marker |-> <<>>] >>

MaxLines == 3

\* the text of the lines ls, joined by newlines
RECURSIVE JoinLines(_, _)
JoinLines(ls, i) ==
  IF i > Len(ls) THEN <<>>
  ELSE (IF i > 1 THEN <<"\n">> ELSE <<>>) \o LineFamily[ls[i]].text \o JoinLines(ls, i + 1)

InitPS ==
  /\ IdleOpt
  /\ IdleCL
  /\ IdleSpeed
  /\ IdleMD
  /\ IdleApp
  /\ \E n \in 0..MaxLines : \E ls \in [1..n -> 1..Len(LineFamily)] :
       /\ lines0 = ls
       /\ csv = JoinLines(ls, 1)
  /\ csvLines = <<>>
  /\ lineNo = 0
  /\ parsed = <<>>
  /\ psPc = "ready"

NextPS ==
  \/ SplitLines
  \/ ParseLine
  \/ ReturnCones

\* PathPoint sequences of up to MaxPath samples, 10 apart: slow or at the cap,
\* turning left, right or not at all, braking, coasting or accelerating
MaxPath == 3

Velocities == {10 * Scale, 35 * Scale}

Curvatures == {0 - Scale \div 10, 0, Scale \div 2}

Accels == {0 - 5 * Scale, 0, 4 * Scale}

InitMD ==
  /\ IdleOpt
  /\ IdleCL
  /\ IdleSpeed
  /\ IdlePS
  /\ IdleApp
  /\ \E n \in 0..MaxPath :
       \E v \in [1..n -> Velocities], c \in [1..n -> Curvatures], a \in [1..n -> Accels] :
         mdPath = [j \in 1..n |->
                     [dist |-> (j - 1) * 10 * Scale, curvature |-> c[j],
                      maxVelocity |-> 35 * Scale, velocity |-> v[j],
                      acceleration |-> a[j]]]
  /\ metadata = <<>>
  /\ mdPc = "ready"

NextMD == CallGetTrackMetadata

----------------------------------------------------------------------------
(* The App: its state, the handlers that change the inputs of the recompute  *)
(* effect, and the effect.                                                    *)

\* parseTrackData as one call; line i gets the identifier i (identifiers
\* play no part in the recompute)
RECURSIVE ParseFrom(_, _)
ParseFrom(ls, i) ==
  IF i >= Len(ls) THEN <<>> ELSE ParseLineOf(At(ls, i), i) \o ParseFrom(ls, i + 1)

parseTrackData(text) == ParseFrom(split(text, "\n"), 0)

\* calculateCenterline's ordering loop, from the points emitted so far
RECURSIVE Walk(_, _)
Walk(mids, order) ==
  IF Len(order) >= Len(mids) THEN SortedPoints(mids, order)
  ELSE LET nearestIdx == NearestIdx(mids, order, 0, 2 * Infinity * Scale, -1)
           rawDist == RawDist(mids, order, nearestIdx)
       IN IF nearestIdx = -1 \/ rawDist > TRACK_WIDTH_LIMIT * Scale
            THEN SortedPoints(mids, order)
            ELSE Walk(mids, Append(order, nearestIdx))

\* calculateCenterline as one call: the values of the points it returns
calculateCenterline(cs) ==
  LET blues == OfType(cs, "BLUE")
      yellows == OfType(cs, "YELLOW")
  IN IF Len(yellows) = 0 \/ Len(blues) = 0 THEN <<>>
     ELSE LET cands == PairAll(yellows, blues, 1)
          IN IF NoneLeft(cands) THEN <<>>
             ELSE LET mids == FilterOverlaps(SortByPairingDist(cands, Len(cands)), 1, <<>>)
                      startIdx == StartIdx(mids, StartPos(cs), 0, Infinity, -1)
                  IN IF NoneLeft(mids) \/ startIdx = -1 THEN <<>>
                     ELSE Walk(mids, <<startIdx>>)

\* Phase 1 of optimizeRRTStar with the random draws draws[i ..]
RECURSIVE RRTTrials(_, _, _, _, _)
RRTTrials(h, cp, pth, draws, i) ==
  IF i > Len(draws) THEN h
  ELSE RRTTrials(RRTTrialStep(h, cp, pth, draws[i].idxA, draws[i].jump),
                 cp, pth, draws, i + 1)

\* optimizeRRTStar as one call
optimizeRRTStar(h, cp, base, draws) ==
  IF Len(cp) < 3 THEN [h |-> h, ids |-> cp]
  ELSE LET c == CloneAll(h, cp, base)
           h1 == RRTTrials(c.h, cp, c.ids, draws, 1)
       IN LaplacianLoop(h1, cp, c.ids, base, SMOOTH_ITERATIONS)

\* optimizeRRTQP: optimizeQP(centerPoints, optimizeRRTStar(centerPoints))
optimizeRRTQP(h, cp, base, draws) ==
  LET rrtPath == optimizeRRTStar(h, cp, base, draws)
  IN optimizeQP(rrtPath.h, cp, TRUE, rrtPath.ids, base + 2 * Len(cp))

\* Math.random() in hundredths; the runs of it the App model follows return
\* one value for every index draw and one for every jump draw of a call
RandomValues == {0, 99}

Draws(len) ==
  {[j \in 1..ITERATIONS_RRT |->
      [idxA |-> (r1 * len) \div 100, jump |-> (r2 * MAX_LOOKAHEAD) \div 100 + 2]] :
     r1 \in RandomValues, r2 \in RandomValues}

\* an optimizer applied to control points given by value: the values of the
\* points it can return
OptimizerOutputs(md, cpv) ==
  LET n == Len(cpv)
      h == [id \in 1..n |-> cpv[id]]
      cp == [j \in 1..n |-> j]
      out(r) == Values(r.h, r.ids)
  IN CASE md = "LAPLACIAN" -> {out(optimizeRacingLine(h, cp, n))}
       [] md = "QP" -> {out(optimizeQP(h, cp, FALSE, <<>>, n))}
       [] md = "HYBRID" -> {out(optimizeHybrid(h, cp, n))}
       [] md = "LOCAL" -> {out(optimizeLocalPlanner(h, cp, n))}
       [] md = "RRT" -> {out(optimizeRRTStar(h, cp, n, d)) : d \in Draws(n)}
       [] md = "RRT_QP" -> {out(optimizeRRTQP(h, cp, n, d)) : d \in Draws(n)}

NeverTooFew(controlPoints) == FALSE

\* if (controlPoints.length < 3) return []
TooFewToFit(controlPoints) == Len(controlPoints) < 3

\* generateDetailedPath as one call.  The samples are determined by the closed
\* curve fitted through the control points: a non-empty result is kept as
\* that curve's control points.
generateDetailedPath(controlPoints) ==
  IF TooFewToFit(controlPoints) THEN <<>>
  ELSE <<[curveThrough |-> controlPoints]>>

\* getTrackMetadata on a path of the App; the summary of a non-empty path is
\* kept as the path it summarises
MetadataOf(pth) ==
  IF Len(pth) = 0 THEN getTrackMetadata(pth)
  ELSE [name |-> "Custom Circuit", summaryOf |-> pth]

\* the text of a track file: one line `tag,x,y` per marker
RECURSIVE FormatNat(_)
FormatNat(n) ==
  IF n < 10 THEN <<DigitChars[n + 1]>>
  ELSE FormatNat(n \div 10) \o <<DigitChars[(n % 10) + 1]>>

FormatInt(n) == IF n < 0 THEN <<"-">> \o FormatNat(0 - n) ELSE FormatNat(n)

TagText(t) ==
  CASE t = "BLUE" -> blue
    [] t = "YELLOW" -> yellow
    [] t = "CAR_START" -> car_start
    [] OTHER -> orange

RECURSIVE TrackCsv(_, _)
TrackCsv(cs, i) ==
  IF i > Len(cs) THEN <<>>
  ELSE (IF i > 1 THEN <<"\n">> ELSE <<>>)
       \o TagText(cs[i].type) \o <<",">> \o FormatInt(cs[i].x \div Scale)
       \o <<",">> \o FormatInt(cs[i].y \div Scale) \o TrackCsv(cs, i + 1)

\* The track files imported: yellow markers only, blue markers only, two pairs, four
\* pairs, and six pairs with a start position; the rows are 3 apart
TrackFiles ==
  << TrackCsv(Markers(0, 3, "line", 3, 3, "none"), 1),
     TrackCsv(Markers(3, 0, "line", 3, 3, "first"), 1),
     TrackCsv(Markers(2, 2, "line", 3, 3, "none"), 1),
     TrackCsv(Markers(4, 4, "line", 3, 3, "last"), 1),
     TrackCsv(Markers(6, 6, "line", 3, 3, "first"), 1) >>

OptimizerModes == {"NONE", "LAPLACIAN", "RRT", "QP", "HYBRID", "RRT_QP", "LOCAL"}

EmptyRacePaths == [laplacian |-> <<>>, qp |-> <<>>, rrt |-> <<>>]

\* handleImport(file) once the file is read: the markers of its text replace
\* the cone list and the optimizer is switched off
handleImport ==
  /\ ~stale
  /\ \E file \in 1..Len(TrackFiles) : appCones' = parseTrackData(TrackFiles[file])
  /\ optimizerMode' = "NONE"
  /\ stale' = TRUE
  /\ UNCHANGED <<showGhost, raceMode, editorState, roadPathData, racingPathData,
                 ghostPathData, racePaths, trackMetadata, centerControlPoints>>
  /\ UNCHANGED <<optVars, clVars, spVars, mdVars, psVars>>

\* onSetOptimizerMode = setOptimizerMode: the setter takes any member of
\* OptimizerMode.  (The overlay's buttons pass every member but LOCAL.)
SetOptimizerMode ==
  /\ ~stale
  /\ \E md \in OptimizerModes \ {optimizerMode} : optimizerMode' = md
  /\ stale' = TRUE
  /\ UNCHANGED <<appCones, showGhost, raceMode, editorState, roadPathData, racingPathData,
                 ghostPathData, racePaths, trackMetadata, centerControlPoints>>
  /\ UNCHANGED <<optVars, clVars, spVars, mdVars, psVars>>

\* onToggleGhost
ToggleGhost ==
  /\ ~stale
  /\ showGhost' = ~showGhost
  /\ stale' = TRUE
  /\ UNCHANGED <<appCones, optimizerMode, raceMode, editorState, roadPathData,
                 racingPathData, ghostPathData, racePaths, trackMetadata,
                 centerControlPoints>>
  /\ UNCHANGED <<optVars, clVars, spVars, mdVars, psVars>>

\* onToggleRaceMode
ToggleRaceMode ==
  /\ ~stale
  /\ raceMode' = ~raceMode
  /\ stale' = TRUE
  /\ UNCHANGED <<appCones, optimizerMode, showGhost, editorState, roadPathData,
                 racingPathData, ghostPathData, racePaths, trackMetadata,
                 centerControlPoints>>
  /\ UNCHANGED <<optVars, clVars, spVars, mdVars, psVars>>

\* the branch of the dispatch on optimizerMode that computes its own control
\* points; RRT_QP reuses the ghost's path and every other mode is "Standard"
Wired == {"LAPLACIAN", "RRT", "QP", "HYBRID"}

\* the optimizers one run of the effect calls
Called ==
  IF editorState.isDragging THEN {}
  ELSE (IF raceMode THEN {"LAPLACIAN", "QP", "RRT"} ELSE {})
       \cup (IF showGhost \/ optimizerMode = "RRT_QP" THEN {"RRT_QP"} ELSE {})
       \cup ({optimizerMode} \cap Wired)

\* The recompute effect, then the render that follows it (trackMetadata)
Recompute ==
  /\ stale
  /\ stale' = FALSE
  /\ IF Len(appCones) = 0
       THEN /\ roadPathData' = <<>>
            /\ racingPathData' = <<>>
            /\ ghostPathData' = <<>>
            /\ racePaths' = EmptyRacePaths
            /\ centerControlPoints' = <<>>
       ELSE \E center \in {calculateCenterline(appCones)} :
            \E centerLinePath \in {generateDetailedPath(center)} :
            \* the detailed paths of what each optimizer called can return
            \E paths \in {[md \in Called |->
                          {generateDetailedPath(o) : o \in OptimizerOutputs(md, center)}]} :
               /\ centerControlPoints' = center
               /\ roadPathData' = centerLinePath
               /\ IF editorState.isDragging
                    THEN /\ racingPathData' = centerLinePath
                         /\ UNCHANGED <<ghostPathData, racePaths>>
                    ELSE /\ IF raceMode
                              THEN \E lap \in paths["LAPLACIAN"], qp \in paths["QP"],
                                      rrt \in paths["RRT"] :
                                     racePaths' = [laplacian |-> lap, qp |-> qp, rrt |-> rrt]
                              ELSE UNCHANGED racePaths
                         /\ LET shouldCalcFastest == showGhost \/ optimizerMode = "RRT_QP"
                            IN \E rrtQpPath \in IF shouldCalcFastest THEN paths["RRT_QP"]
                                                 ELSE {<<>>} :
                                 /\ ghostPathData' = IF showGhost THEN rrtQpPath
                                                     ELSE ghostPathData
                                 /\ IF optimizerMode \in Wired
                                      THEN racingPathData' \in paths[optimizerMode]
                                      ELSE IF optimizerMode = "RRT_QP"
                                             THEN racingPathData' = rrtQpPath
                                             ELSE racingPathData' = centerLinePath
  /\ trackMetadata' = MetadataOf(racingPathData')
  /\ UNCHANGED <<appCones, optimizerMode, showGhost, raceMode, editorState>>
  /\ UNCHANGED <<optVars, clVars, spVars, mdVars, psVars>>

\* the state after construction, before the first run of the effect
InitApp ==
  /\ IdleOpt
  /\ IdleCL
  /\ IdleSpeed
  /\ IdleMD
  /\ IdlePS
  /\ appCones = <<>>
  /\ optimizerMode = "NONE"
  /\ showGhost = FALSE
  /\ raceMode = FALSE
  /\ editorState = [selectedConeId |-> "null", isDragging |-> FALSE, mode |-> "VIEW"]
  /\ roadPathData = <<>>
  /\ racingPathData = <<>>
  /\ ghostPathData = <<>>
  /\ racePaths = EmptyRacePaths
  /\ trackMetadata = MetadataOf(<<>>)
  /\ stale = TRUE
  /\ centerControlPoints = <<>>

NextApp ==
  \/ handleImport
  \/ SetOptimizerMode
  \/ ToggleGhost
  \/ ToggleRaceMode
  \/ Recompute

Init == InitOpt

Next ==
  \/ CallRacingLine
  \/ CallQP
  \/ CallHybrid
  \/ CallLocalPlanner
  \/ RRTStart
  \/ RRTTrial
  \/ RRTFinish

Spec == Init /\ [][Next]_vars

CenterlineSpec == InitCL /\ [][NextCL]_vars

SpeedSpec == InitSpeed /\ [][NextSpeed]_vars

MetadataSpec == InitMD /\ [][NextMD]_vars

ParseSpec == InitPS /\ [][NextPS]_vars

AppSpec == InitApp /\ [][NextApp]_vars

----------------------------------------------------------------------------
(* Properties of the optimizers *)

Done == pc = "done"

Returned(md) == Done /\ mode = md

AllWidthsPositive == \A j \in 1..Len(input0) : input0[j].y > 0

PlanarDistSq(p, c) == (p.x - c.x) * (p.x - c.x) + (p.z - c.z) * (p.z - c.z)

\* p lies within num/den of the width w of c, to within Tol:
\* sqrt(dSq) <= (num / den) * w + Tol
WithinWidth(p, c, num, den) ==
  LET dSq == PlanarDistSq(p, c)
      bound == num * c.y + den * Tol
  IN dSq <= 100 * Scale * Scale /\ dSq * den * den <= bound * bound

\* p lies on the boundary of that disc, to within Tol
OnBoundary(p, c, num, den) ==
  /\ WithinWidth(p, c, num, den)
  /\ num * c.y > den * Tol
  /\ PlanarDistSq(p, c) * den * den >= (num * c.y - den * Tol) * (num * c.y - den * Tol)

Output(j) == heap[result[j]]

\* C1: when optimizeRacingLine, optimizeRRTStar, optimizeQP (with or without
\* an initial guess), optimizeHybrid or optimizeRRTQP returns for an input of
\* at least 3 points with positive widths, output point i lies within
\* 0.9 * (w_i / 2) = (9/20) w_i of the input centerline point i (to within
\* the rounding tolerance Tol).
C1_WidthContainment90 ==
  (Done /\ mode # "LOCAL" /\ Len(input0) >= 3 /\ AllWidthsPositive) =>
    /\ Len(result) = Len(input0)
    /\ \A j \in 1..Len(input0) : WithinWidth(Output(j), input0[j], 9, 20)

\* a warm-started optimizeQP has returned with a point held on the boundary
C1_Witness ==
  /\ Returned("QP") /\ hasGuess /\ Len(initialGuess) = Len(input0)
  /\ Len(input0) >= 3 /\ AllWidthsPositive
  /\ \E j \in 1..Len(input0) : OnBoundary(Output(j), input0[j], 9, 20)

\* C2: every point the local planner returns for an input of at least 6 points
\* (positive widths), the snapped last point included, lies within
\* 0.85 * (w_i / 2) = (17/40) w_i of the input centerline point i.
C2_WidthContainment85 ==
  (Returned("LOCAL") /\ Len(input0) >= 6 /\ AllWidthsPositive) =>
    /\ Len(result) = Len(input0)
    /\ \A j \in 1..Len(input0) : WithinWidth(Output(j), input0[j], 17, 40)

\* C3: in every state of a call, and after it, the input array holds the
\* same elements in the same order with the values they had before the call.
C3_NonMutation == Values(heap, centerPoints) = input0

\* optimizeRRTStar has returned points that differ from its input
C3_Witness ==
  /\ Returned("RRT") /\ Len(input0) >= 3
  /\ Values(heap, result) # input0

Degenerate ==
  IF mode = "LOCAL" THEN Len(input0) < 6 ELSE Len(input0) < 3

\* C10: with fewer than 3 points (fewer than 6 for the local planner) the
\* call returns the input array itself, its values unchanged.
C10_DegenerateNoOp ==
  (Done /\ Degenerate) =>
    /\ result = centerPoints
    /\ Values(heap, result) = input0

\* the local planner has returned a 5-point input
C10_Witness ==
  /\ Returned("LOCAL") /\ Len(input0) = 5
  /\ result = centerPoints

\* twice the signed area of the triangle a, b, p in the x-z plane
Cross(a, b, p) == (b.x - a.x) * (p.z - a.z) - (b.z - a.z) * (p.x - a.x)

Collinear(S) == \A a \in S, b \in S, p \in S : Cross(a, b, p) = 0

InputPoints == {input0[j] : j \in 1..Len(input0)}

OutputPoints == {Output(j) : j \in 1..Len(result)}

\* the centerline of scenario C: collinear points, all of the same width
Straight ==
  /\ Collinear(InputPoints)
  /\ \A i \in 1..Len(input0), j \in 1..Len(input0) : input0[i].y = input0[j].y

\* C14 (as claimed): scenario C: for a centerline of collinear points with
\* equal widths every optimizer returns points that are still collinear and
\* output point i equals input point i.
C14_StraightLineUnmoved ==
  (Done /\ Straight /\ ~hasGuess) =>
    /\ Collinear(OutputPoints)
    /\ Values(heap, result) = input0

\* C14 (amended): for a centerline of collinear points with equal widths
\* every optimizer returns as many points as it was given, all on the line
\* through the input points.
C14_StraightLineStaysOnLine ==
  (Done /\ Straight /\ ~hasGuess) =>
    /\ Len(result) = Len(input0)
    /\ Collinear(InputPoints \cup OutputPoints)

\* optimizeRacingLine has returned for a straight centerline of at least 3
\* points and has displaced a point along the line
C14_Witness ==
  /\ Returned("LAPLACIAN") /\ Straight /\ Len(input0) >= 3
  /\ Collinear(InputPoints \cup OutputPoints)
  /\ Values(heap, result) # input0

----------------------------------------------------------------------------
(* Properties of calculateCenterline *)

CLDone == clPc = "done"

NumBlue == Len(OfType(cones, "BLUE"))

NumYellow == Len(OfType(cones, "YELLOW"))

\* C6: the result is empty when no BLUE or no YELLOW marker is given; with k
\* YELLOW markers at most k candidate pairs are generated, and so at most k
\* points are returned.
C6_PairingCountBound ==
  /\ (CLDone /\ (NumBlue = 0 \/ NumYellow = 0)) => clResult = <<>>
  /\ Len(candidates) <= NumYellow
  /\ CLDone => Len(clResult) <= NumYellow

\* three yellows and two blues have produced exactly three candidates
C6_Witness ==
  /\ CLDone /\ NumYellow = 3 /\ NumBlue = 2
  /\ Len(candidates) = 3
  /\ Len(clResult) > 0

ScenarioA == Markers(5, 5, "line", 1, 3, "first")

\* C8 as claimed: scenario A returns the 5 points (i, 1.5), i = 0..4, in order.
C8_ScenarioAFivePoints ==
  (CLDone /\ cones = ScenarioA) =>
    /\ Len(clResult) = 5
    /\ \A i \in 1..Len(clResult) :
         clResult[i].x = (i - 1) * Scale /\ clResult[i].z = (15 * Scale) \div 10

\* C8 as amended: scenario A returns the 2 points (0, 1.5) and (3, 1.5), of
\* width 3: the midpoints at i = 1, 2 and 4 are closer than MIN_SPACING to an
\* accepted one.
C8_ScenarioATwoPoints ==
  (CLDone /\ cones = ScenarioA) =>
    clResult = <<Vec(0, 3 * Scale, (15 * Scale) \div 10),
                 Vec(3 * Scale, 3 * Scale, (15 * Scale) \div 10)>>

\* scenario A has been run: five candidates, a non-empty result
C8_Witness ==
  CLDone /\ cones = ScenarioA /\ Len(candidates) = 5 /\ Len(clResult) > 0

\* C9: any two distinct returned points are at least 2.5 apart
\* (4 d^2 >= 25 in units).
C9_MinimumSpacing ==
  CLDone =>
    \A i, j \in 1..Len(clResult) :
      i # j => 4 * PlanarDistSq(clResult[i], clResult[j]) >= 25 * Scale * Scale

\* the filter dropped a candidate and at least two points were returned
C9_Witness ==
  CLDone /\ Len(clResult) >= 2 /\ Len(midpoints) < Len(candidates)

----------------------------------------------------------------------------
(* Properties of the speed solve *)

SpeedDone == spPc = "done"

Solving == spPc \in {"seed", "backward", "forward", "pass3"}

C5_GlobalSpeedCap ==
  (Solving \/ SpeedDone) => \A j \in 1..Len(pathData) : pathData[j].velocity <= 35 * Scale

\* the solve has returned a profile in which one sample runs at the cap and
\* another below it
C5_Witness ==
  /\ SpeedDone
  /\ \E j \in 1..Len(pathData) : pathData[j].velocity = 35 * Scale
  /\ \E j \in 1..Len(pathData) : pathData[j].velocity < 35 * Scale

----------------------------------------------------------------------------
(* Properties of the speed solve *)

First == pathData[1]

Last == pathData[Len(pathData)]

\* min(MAX_VELOCITY, sqrt(maxGripAcc * 10000))
CommonCeiling == Min(MAX_VELOCITY, Sqrt(maxGripAcc * (10000 * Scale)))

\* the sampled loop turns nowhere: every sample that lies between two samples
\* distinct from it has curvature 0
AllStraight == \A j \in 2..(Len(pathData) - 1) : pathData[j].curvature = 0

C16_SeamVelocityContinuity ==
  ((spPc = "seed" /\ iter > 0) \/ spPc = "pass3" \/ SpeedDone) =>
     Last.velocity = First.velocity

\* a returned profile whose first and last samples have different ceilings and
\* whose second sample runs at another velocity than the seam
C16_Witness ==
  /\ SpeedDone
  /\ Last.velocity = First.velocity
  /\ First.maxVelocity # Last.maxVelocity
  /\ pathData[2].velocity # First.velocity

SeedStep == spPc = "seed" /\ spPc' = "backward"

\* C20 (as claimed): in every outer iteration, the first included, the last
\* sample's velocity is set to min(its velocity, the first sample's velocity)
\* before the backward pass starts.
C20_SeedEveryIteration ==
  [][SeedStep => Last.velocity' = Min(Last.velocity, First.velocity)]_vars

\* C20 (amended): in every outer iteration after the first the last sample's
\* velocity is set to min(its velocity, the first sample's velocity) and no
\* other field changes; the first iteration changes no velocity before its
\* backward pass.
C20_SeedAfterFirstIteration ==
  [][SeedStep =>
       IF iter > 0
         THEN pathData' = SetVel(pathData, Len(pathData) - 1,
                                 Min(Last.velocity, First.velocity))
         ELSE pathData' = pathData]_vars

\* the second iteration has just seeded the last sample, on a path whose
\* first ceiling is below its last ceiling
C20_Witness ==
  /\ spPc = "backward"
  /\ iter = 1
  /\ idx = Len(pathData) - 2
  /\ First.maxVelocity < Last.maxVelocity

----------------------------------------------------------------------------
(* Properties of getTrackMetadata *)

MDDone == mdPc = "done"

MaxOf(S) == CHOOSE m \in S : \A x \in S : x <= m

MinOf(S) == CHOOSE m \in S : \A x \in S : m <= x

LatGs == {LatG(mdPath[j]) : j \in 1..Len(mdPath)}

LongGs == {LongG(mdPath[j]) : j \in 1..Len(mdPath)}

\* C17 (as claimed): for a non-empty sequence maxLatG is the maximum over the
\* samples of v^2 * curvature / GRAVITY, maxLongG the maximum and minLongG the
\* minimum over the samples of acceleration / GRAVITY.
C17_MetadataExtrema ==
  (MDDone /\ Len(mdPath) > 0) =>
    /\ metadata.maxLatG = MaxOf(LatGs)
    /\ metadata.maxLongG = MaxOf(LongGs)
    /\ metadata.minLongG = MinOf(LongGs)

\* C17 (amended): for a non-empty sequence maxLatG and maxLongG are the maximum
\* of 0 and the samples' values, and minLongG is the minimum of 0 and the
\* samples' acceleration / GRAVITY.
C17_MetadataExtremaWithZero ==
  (MDDone /\ Len(mdPath) > 0) =>
    /\ metadata.maxLatG = MaxOf(LatGs \cup {0})
    /\ metadata.maxLongG = MaxOf(LongGs \cup {0})
    /\ metadata.minLongG = MinOf(LongGs \cup {0})

\* the metadata of a sequence that accelerates at every sample: its trough is 0
C17_Witness ==
  /\ MDDone /\ Len(mdPath) > 1
  /\ \A j \in 1..Len(mdPath) : mdPath[j].acceleration > 0
  /\ metadata.minLongG = 0
  /\ metadata.maxLongG = MaxOf(LongGs)

----------------------------------------------------------------------------
(* Properties of parseTrackData *)

PSDone == psPc = "done"

\* the markers the lines ls[i ..] stand for, in order
RECURSIVE Expected(_, _)
Expected(ls, i) ==
  IF i > Len(ls) THEN <<>> ELSE LineFamily[ls[i]].marker \o Expected(ls, i + 1)

WithoutId(c) == [type |-> c.type, x |-> c.x, y |-> c.y]

\* C12: whatever lines precede or follow it, a line with fewer than 3 fields,
\* with an x or y that does not parse as a number, or with an unrecognised tag
\* yields no marker, and every other line yields exactly its one marker: the
\* markers returned are those of the well-formed lines, in the order of the
\* lines.
C12_LineIsolation ==
  PSDone => [j \in 1..Len(parsed) |-> WithoutId(parsed[j])] = Expected(lines0, 1)

\* a well-formed line between two malformed ones has yielded the only marker
C12_Witness ==
  /\ PSDone
  /\ Len(lines0) = 3
  /\ LineFamily[lines0[1]].marker = <<>>
  /\ LineFamily[lines0[2]].marker # <<>>
  /\ LineFamily[lines0[3]].marker = <<>>
  /\ Len(parsed) = 1

\* C13: the markers returned by one parseTrackData call have pairwise
\* distinct identifiers.
C13_UniqueIds ==
  PSDone => \A i \in 1..Len(parsed), j \in 1..Len(parsed) :
              i # j => parsed[i].id # parsed[j].id

----------------------------------------------------------------------------
(* Properties of the App's recompute                                         *)

\* the effect has run on the present inputs
Settled == ~stale

MissingColour ==
  OfType(appCones, "BLUE") = <<>> \/ OfType(appCones, "YELLOW") = <<>>

\* the detailed paths mode md's optimizer can produce from the centerline of
\* the last recompute
SampledOutputs(md) ==
  {generateDetailedPath(o) : o \in OptimizerOutputs(md, centerControlPoints)}

\* C11: when the marker set has no BLUE or no YELLOW marker, a recompute
\* ends with an empty centerline, every optimizer returns the empty sequence
\* on it, the road path, the racing path and every ghost or race path computed
\* are empty, and the track metadata is the zeroed record named 'Empty'.
C11_EmptyPropagates ==
  (Settled /\ MissingColour) =>
    /\ centerControlPoints = <<>>
    /\ \A md \in Modes : OptimizerOutputs(md, centerControlPoints) = {<<>>}
    /\ roadPathData = <<>>
    /\ racingPathData = <<>>
    /\ showGhost => ghostPathData = <<>>
    /\ raceMode => racePaths = EmptyRacePaths
    /\ trackMetadata = [name |-> "Empty", totalLength |-> 0, avgSpeed |-> 0,
                        estLapTime |-> 0, maxLatG |-> 0, maxLongG |-> 0,
                        minLongG |-> 0]

\* a track file with yellow markers only has gone through the search+refine
\* mode with the ghost and the race paths on
C11_Witness ==
  /\ Settled
  /\ Len(appCones) > 0
  /\ OfType(appCones, "BLUE") = <<>>
  /\ optimizerMode = "RRT_QP"
  /\ showGhost
  /\ raceMode
  /\ racingPathData = <<>>
  /\ trackMetadata.name = "Empty"

\* C18: after a recompute with a non-empty centerline and no drag in
\* progress, in each of the modes LAPLACIAN, RRT, QP, HYBRID, RRT_QP and LOCAL
\* the racing path is the sampled output of that mode's optimizer, and in
\* mode NONE it is the plain centerline path.
C18_EveryModeWired ==
  (Settled /\ centerControlPoints # <<>> /\ ~editorState.isDragging) =>
    IF optimizerMode \in Modes
      THEN racingPathData \in SampledOutputs(optimizerMode)
      ELSE racingPathData = generateDetailedPath(centerControlPoints)

----------------------------------------------------------------------------
(* Properties of the returned speed profile                                  *)

\* the rounding of two velocities of at most MAX_VELOCITY, in squared velocity
SquareSlack == 2 * Tol * MAX_VELOCITY

\* samples j and j + 1 (1-based), d apart, respect the braking and the
\* acceleration limit
Feasible(pd, j) ==
  LET d == pd[j + 1].dist - pd[j].dist
      v == pd[j].velocity
      vNext == pd[j + 1].velocity
  IN /\ v * v <= vNext * vNext + 2 * MAX_BRAKING * d + SquareSlack
     /\ vNext * vNext <= v * v + 2 * MAX_ACCEL * d + SquareSlack

\* sample j's acceleration field lies in [-MAX_BRAKING, MAX_ACCEL]; the field
\* of the last sample is a copy of the first one's
AccelWithinLimits(pd, j) ==
  LET from == IF j < Len(pd) THEN j ELSE 1
      d == pd[from + 1].dist - pd[from].dist
      a == pd[j].acceleration
  IN /\ 2 * d * a >= 0 - 2 * d * MAX_BRAKING - SquareSlack - d
     /\ 2 * d * a <= 2 * d * MAX_ACCEL + SquareSlack + d

\* the samples are evenly spaced, as the resampling of the curve leaves them
EvenlySpaced ==
  \A j \in 1..(Len(pathData) - 1) :
     pathData[j + 1].dist - pathData[j].dist = pathData[2].dist - pathData[1].dist

\* C21: in the returned sequence every pair of consecutive samples, the pairs
\* next to the start/finish seam included, satisfies
\* v[i]^2 <= v[i+1]^2 + 2 * MAX_BRAKING * d and
\* v[i+1]^2 <= v[i]^2 + 2 * MAX_ACCEL * d, and every acceleration field lies
\* in [-MAX_BRAKING, MAX_ACCEL].
C21_FrictionFeasible ==
  (SpeedDone /\ EvenlySpaced) =>
    /\ \A j \in 1..(Len(pathData) - 1) : Feasible(pathData, j)
    /\ \A j \in 1..Len(pathData) : AccelWithinLimits(pathData, j)

\* a returned, evenly spaced profile in which a sample runs below its own
\* ceiling and faster than the next one: the braking pass has lowered it
C21_Witness ==
  /\ SpeedDone
  /\ EvenlySpaced
  /\ \E j \in 2..(Len(pathData) - 1) :
       /\ pathData[j].velocity < pathData[j].maxVelocity
       /\ pathData[j].velocity > pathData[j + 1].velocity

\* C28: at the end of each outer iteration of the solve and in the returned
\* sequence, the first and the last sample both run at the last sample's
\* speed ceiling maxVelocity.
C28_SeamPinnedToLastCeiling ==
  ((spPc = "seed" /\ iter > 0) \/ spPc = "pass3" \/ SpeedDone) =>
     /\ First.velocity = Last.maxVelocity
     /\ Last.velocity = Last.maxVelocity

\* a returned profile whose first sample has a lower ceiling than its last,
\* and whose sample before the last runs below the seam's velocity
C28_Witness ==
  /\ SpeedDone
  /\ First.maxVelocity < Last.maxVelocity
  /\ First.velocity = Last.maxVelocity
  /\ pathData[Len(pathData) - 1].velocity < Last.velocity

----------------------------------------------------------------------------
(* Properties of the ordering walk of calculateCenterline                    *)

\* the walk has returned: the indices it emitted are in sortedIdx
Walked == CLDone /\ sortedIdx # <<>>

StoppedEarly == Walked /\ Len(sortedIdx) < Len(midpoints)

Unvisited == {i \in 0..(Len(midpoints) - 1) : i \notin Ids(sortedIdx)}

\* the distance from the last emitted midpoint to midpoint i
FromCurrent(i) ==
  LET currentPos == At(midpoints, sortedIdx[Len(sortedIdx)])
  IN Dist(At(midpoints, i).x, At(midpoints, i).y, currentPos.x, currentPos.y)

\* C22: the ordering loop stops before emitting all accepted midpoints only
\* when no unvisited accepted midpoint lies within TRACK_WIDTH_LIMIT of the
\* current point, and it then returns the prefix built so far.
C22_EarlyStopOnlyWhenUnreachable ==
  StoppedEarly =>
    /\ \A i \in Unvisited : FromCurrent(i) > TRACK_WIDTH_LIMIT * Scale
    /\ clResult = SortedPoints(midpoints, sortedIdx)

\* the indices emitted before step t of the walk (step t emits sortedIdx[t + 1])
Emitted(t) == SubSeq(sortedIdx, 1, t)

NotYetEmitted(t) == {i \in 0..(Len(midpoints) - 1) : i \notin Ids(Emitted(t))}

\* the unit vector from midpoint a to midpoint b
Direction(a, b) == Normalize(b.x - a.x, b.y - a.y)

\* distance * penalty of midpoint i at step t, as the claim words it: penalty
\* 1 while one point is emitted, otherwise 3 - 2 cos of the angle between the
\* heading (second-last to last emitted point) and the direction to i
ClaimedCost(t, i) ==
  LET last == At(midpoints, sortedIdx[t])
      c == At(midpoints, i)
      d == Dist(c.x, c.y, last.x, last.y)
  IN IF t = 1 THEN d * Fine
     ELSE LET h == Direction(At(midpoints, sortedIdx[t - 1]), last)
              e == Direction(last, c)
              cos == RoundDiv(h.x * e.x + h.z * e.z, Fine)
          IN d * (3 * Fine - 2 * cos)

\* C23: every point the ordering walk emits after the first is an unvisited
\* accepted midpoint of least distance * penalty from the current point, the
\* lowest index winning a tie.
C23_HeadingAwareGreedy ==
  (clPc = "walking" \/ Walked) =>
    \A t \in 1..(Len(sortedIdx) - 1) :
      LET i == sortedIdx[t + 1]
      IN /\ i \in NotYetEmitted(t)
         /\ \A j \in NotYetEmitted(t) :
              \/ ClaimedCost(t, i) < ClaimedCost(t, j)
              \/ ClaimedCost(t, i) = ClaimedCost(t, j) /\ i <= j

\* a walk that resolved a tie at its first step and later, with a heading,
\* emitted a point although another unvisited one was nearer
C23_Witness ==
  /\ Walked
  /\ Len(sortedIdx) >= 3
  /\ \E j \in NotYetEmitted(1) \ {sortedIdx[2]} :
       ClaimedCost(1, j) = ClaimedCost(1, sortedIdx[2])
  /\ \E t \in 2..(Len(sortedIdx) - 1) : \E j \in NotYetEmitted(t) :
       LET last == At(midpoints, sortedIdx[t])
           far == At(midpoints, sortedIdx[t + 1])
           near == At(midpoints, j)
       IN Dist(near.x, near.y, last.x, last.y) < Dist(far.x, far.y, last.x, last.y)

----------------------------------------------------------------------------
(* Properties of the overlap filter of calculateCenterline                   *)

\* the filter has run: candidates holds the sorted pairs, midpoints the
\* accepted ones
Filtered == clPc \in {"filtered", "walking"} \/ (CLDone /\ midpoints # <<>>)

SamePlace(a, b) == a.x = b.x /\ a.y = b.y

\* candidate p was accepted: its midpoint is among the accepted ones and no
\* candidate before it has the same midpoint
Accepted(p) ==
  /\ \E m \in 1..Len(midpoints) : SamePlace(midpoints[m], candidates[p])
  /\ \A q \in 1..(p - 1) : ~SamePlace(candidates[q], candidates[p])

\* 4 d^2 < 25: strictly closer than MIN_SPACING = 2.5
Closer(a, b) ==
  4 * ((a.x - b.x) * (a.x - b.x) + (a.y - b.y) * (a.y - b.y)) < 25 * Scale * Scale

\* an accepted candidate, no wider than p, closer than MIN_SPACING to p
Blockers(p) ==
  {q \in 1..Len(candidates) \ {p} :
     /\ Accepted(q)
     /\ candidates[q].pairingDist <= candidates[p].pairingDist
     /\ Closer(candidates[q], candidates[p])}

\* C24: the spacing filter drops a candidate only if an accepted candidate of
\* pairing distance at most its own lies strictly closer than MIN_SPACING
\* (2.5) to it, and accepts every candidate not so blocked.
C24_FilterPrefersTighterPairs ==
  Filtered => \A p \in 1..Len(candidates) : Accepted(p) <=> Blockers(p) = {}

\* the pairs were not generated in order of pairing distance, and a candidate
\* was dropped for an accepted one strictly tighter than it
C24_Witness ==
  /\ Filtered
  /\ LET cands == PairAll(OfType(cones, "YELLOW"), OfType(cones, "BLUE"), 1)
     IN \E p \in 1..(Len(cands) - 1) : cands[p].pairingDist > cands[p + 1].pairingDist
  /\ \E p \in 1..Len(candidates) : \E q \in Blockers(p) :
       candidates[q].pairingDist < candidates[p].pairingDist

----------------------------------------------------------------------------
(* Termination and range of the ordering walk                                *)

\* C29: the ordering loop runs at most (number of accepted midpoints - 1)
\* iterations and then returns; the returned points are accepted midpoints,
\* each at most once.
C29_WalkBounded ==
  /\ clSteps <= Max(Len(midpoints) - 1, 0)
  /\ (clPc = "walking" /\ clSteps = Len(midpoints) - 1) => ENABLED WalkEnd
  /\ Walked =>
       /\ \A p \in 1..Len(clResult) : \E m \in 1..Len(midpoints) :
            clResult[p] = Vec(midpoints[m].x, midpoints[m].width, midpoints[m].y)
       /\ \A p, q \in 1..Len(clResult) : p # q => clResult[p] # clResult[q]

\* a walk over four or more accepted midpoints that emitted all of them in
\* one iteration less than there are midpoints
C29_Witness ==
  /\ Walked
  /\ Len(midpoints) >= 4
  /\ Len(clResult) = Len(midpoints)
  /\ clSteps = Len(midpoints) - 1

----------------------------------------------------------------------------
(* Properties of the width channel *)

NoWidth(j) == input0[j].y <= 0

\* the centerline point j with the default width of 3.0 in place of its own
DefaultWidth(j) == [input0[j] EXCEPT !.y = 3 * Scale]

\* C30: a centerline point whose stored width is <= 0 is constrained as a
\* point of width 3.0: the point an optimizer returns for it lies within
\* 0.9 * 1.5 of it (0.85 * 1.5 for the local planner), to within Tol.
C30_DefaultWidth ==
  Done =>
    \A j \in 1..Len(input0) :
      NoWidth(j) =>
        IF mode = "LOCAL" THEN WithinWidth(Output(j), DefaultWidth(j), 17, 40)
        ELSE WithinWidth(Output(j), DefaultWidth(j), 9, 20)

\* an optimizer has returned a point held on the circle of radius 0.9 * 1.5
\* around a centerline point that has no width of its own: the radius used
\* for it was not 0
C30_Witness ==
  /\ Done /\ mode # "LOCAL" /\ Len(input0) >= 3
  /\ \E j \in 1..Len(input0) :
       NoWidth(j) /\ OnBoundary(Output(j), DefaultWidth(j), 9, 20)

\* C27: when an optimizer returns for an input of at least its minimum size
\* (6 points for the local planner, 3 for the others), the y component of
\* output point i is the y component of input centerline point i.
C27_WidthChannelKept ==
  (Done /\ Len(input0) >= (IF mode = "LOCAL" THEN 6 ELSE 3)) =>
    /\ Len(result) = Len(input0)
    /\ \A j \in 1..Len(input0) : Output(j).y = input0[j].y

----------------------------------------------------------------------------
(* Properties of Phase 1 of optimizeRRTStar *)

InPhase1 == pc = "phase1"

\* the centerline point j with the width the optimizers use for it
Centre(j) == [input0[j] EXCEPT !.y = WidthOf(input0[j])]

\* C26: after any sequence of Phase 1 trials, for every track length >= 3 and
\* every draw of idxA and jump (jump >= len included), every path point lies
\* within 0.9 * half-width of its own centerline point: a committed shortcut
\* wrote only chord positions that the validity check had accepted for the
\* index they were written to, and left its end points alone.
C26_Phase1Contained ==
  InPhase1 =>
    \A j \in 1..Len(path) : WithinWidth(heap[path[j]], Centre(j), 9, 20)

----------------------------------------------------------------------------
(* Properties of the receding-horizon planner *)

\* windowPoints[1] after the window of planning cycle i has been optimized,
\* for a window that starts at the position start and continues with the
\* input centerline points (i+1 .. i+5) mod N
SecondOfWindow(start, i) ==
  LET n == Len(input0)
      cp == [j \in 1..n |-> j]
      h == [id \in 1..(n + 1) |-> IF id <= n THEN input0[id] ELSE start]
      src == [j \in 1..(lookahead + 1) |->
                IF j = 1 THEN n + 1 ELSE At(cp, (i + j - 1) % n)]
      w == CloneAll(h, src, n + 1)
      h1 == WindowLoop(w.h, cp, w.ids, i, iterations_local)
  IN h1[At(w.ids, 1)]

Snapped == Output(Len(result)) = Output(1)

\* C25: for an input of N >= 6 points the local planner returns N distinct
\* points, the first equal to centerline point 0; output point i+1 is the
\* second point of the window of planning cycle i, computed from output
\* point i and the centerline points (i+1 .. i+5) mod N, and is as it was
\* committed; only the last point may instead be the snapped copy of the first.
C25_RecedingHorizonCommit ==
  (Returned("LOCAL") /\ Len(input0) >= 6) =>
    /\ Len(result) = Len(input0)
    /\ Cardinality(Ids(result)) = Len(result)
    /\ Output(1) = input0[1]
    /\ \A i \in 0..(Len(input0) - 2) :
         \/ Output(i + 2) = SecondOfWindow(Output(i + 1), i)
         \/ i = Len(input0) - 2 /\ Snapped

\* the planner has returned a path that leaves the centerline and whose last
\* point was not snapped onto the first
C25_Witness ==
  /\ Returned("LOCAL") /\ Len(input0) >= 6
  /\ ~Snapped
  /\ \E j \in 2..Len(input0) : PlanarDistSq(Output(j), input0[j]) > 0
  /\ \E j \in 2..Len(input0) : OnBoundary(Output(j), Centre(j), 17, 40)


====
